---- MODULE Spec2Model ----
(***************************************************************************)
(* Signal aggregation and risk sizing of syntX_bot:                        *)
(*   AdvancedTradingBot.generate_signal / calculate_weighted_signal /      *)
(*   calculate_atr (src/advanced_trading_bot.py),                          *)
(*   AIAnalysisEngine.analyze_with_ai (src/ai_analysis_engine.py),         *)
(*   SignalGenerator.analyze_symbol / get_current_price /                  *)
(*   calculate_position_size (src/signal_generator.py).                    *)
(*                                                                         *)
(* Numbers.  A Python float is modelled by an exact fraction <<n, d>> in   *)
(* lowest terms with d > 0; <<0, 0>> is NaN and <<1, 0>> is +inf, the two  *)
(* values numpy produces for a division by zero.  Binary rounding error of *)
(* floats is not modelled; round(x, 2) is modelled as round-half-even on   *)
(* the exact value.                                                        *)
(* A Python dict is a TLA+ record; a key the dict lacks is a field the     *)
(* record lacks, so d['k'] raising KeyError is "k" \notin DOMAIN d.        *)
(*                                                                         *)
(* The operations are those of constructed objects.  (As written,          *)
(* AIAnalysisEngine.__init__ calls os.getenv in a module that does not     *)
(* import os.)                                                             *)
(*                                                                         *)
(* The strategy evaluators (analyze_with_smc, _trend, _momentum,           *)
(* _mean_reversion, _breakout) and the pattern detectors of                *)
(* src/technical_analyzer.py (identify_fvg, identify_order_blocks,         *)
(* identify_liquidity_sweeps) are operations of their own.  Within         *)
(* generate_signal and analyze_symbol the direction and strength that the  *)
(* evaluators and get_signal_strength return are inputs.  An exponentially *)
(* weighted mean is computed exactly on short series; over long histories  *)
(* (the three EMAs of a 200-bar history, the MACD and its signal line) its *)
(* value at the last bar is an input.                                      *)
(*                                                                         *)
(* The indicator columns of TechnicalAnalyzer.calculate_indicators, the    *)
(* scoring of get_signal_strength and SignalGenerator.fetch_data over the  *)
(* replies of DerivAPIHandler.get_ohlc are operations of Spec as well.     *)
(* CycleSpec interleaves the steps of analysis cycles of several           *)
(* instruments.  ScannerSpec runs AutoScanner.perform_scan,                *)
(* broadcast_signals and cleanup_broadcasted_signals (src/auto_scanner.py) *)
(* against a clock.  PositionsSpec runs the trade buttons of               *)
(* TelegramBotHandler (src/telegram_bot_handler.py); an await that can     *)
(* raise (a Telegram request) raises or not by choice of the environment.  *)
(***************************************************************************)
EXTENDS Integers, Sequences, FiniteSets, TLC

VARIABLES pc, op, args, price_data, strategies, locals, ret,
          cycles, clock, broadcasted_signals, channel, last_scan_time, user_positions

\* one call of an analysis operation: its position, arguments, locals and result
call == <<pc, op, args, price_data, strategies, locals, ret>>
\* the analysis cycles in progress
workers == <<cycles>>
\* the AutoScanner object, the wall clock and the public channel
scanner == <<clock, broadcasted_signals, channel, last_scan_time>>
\* the TelegramBotHandler object
handler == <<user_positions>>

vars == <<call, workers, scanner, handler>>

-----------------------------------------------------------------------------
(* Float arithmetic on exact fractions *)

RECURSIVE GCD(_, _)
GCD(a, b) == IF b = 0 THEN a ELSE GCD(b, a % b)

IAbs(i) == IF i < 0 THEN -i ELSE i

Q(n, d) == LET g == GCD(IAbs(n), d) IN <<n \div g, d \div g>>

NaN == <<0, 0>>
Inf == <<1, 0>>
Zero == <<0, 1>>
One == <<1, 1>>

IsNaN(x) == x = NaN
IsFinite(x) == x[2] > 0

\* sums and products are reduced before they are formed, to keep the integers small
QAdd(x, y) ==
    IF IsFinite(x) /\ IsFinite(y)
    THEN LET g == GCD(x[2], y[2])
         IN Q(x[1] * (y[2] \div g) + y[1] * (x[2] \div g), (x[2] \div g) * y[2])
    ELSE NaN
QNeg(x) == <<-x[1], x[2]>>
QSub(x, y) == QAdd(x, QNeg(y))
QMul(x, y) ==
    IF IsFinite(x) /\ IsFinite(y)
    THEN LET g1 == GCD(IAbs(x[1]), y[2])
             g2 == GCD(IAbs(y[1]), x[2])
         IN Q((x[1] \div g1) * (y[1] \div g2), (x[2] \div g2) * (y[2] \div g1))
    ELSE NaN
QAbs(x) == <<IAbs(x[1]), x[2]>>

\* x < y as Python evaluates it: every comparison with NaN is False
QLt(x, y) == IsFinite(x) /\ IsFinite(y) /\ QSub(x, y)[1] < 0
QLe(x, y) == IsFinite(x) /\ IsFinite(y) /\ QSub(x, y)[1] <= 0

\* numpy float64 division: x/0 is inf (x # 0) or nan (0/0), never an exception
QDiv(x, y) ==
    IF ~(IsFinite(x) /\ IsFinite(y)) THEN NaN
    ELSE IF y[1] = 0 THEN (IF x[1] = 0 THEN NaN ELSE Inf)
    ELSE IF y[1] < 0 THEN QMul(QNeg(x), <<y[2], -y[1]>>)
    ELSE QMul(x, <<y[2], y[1]>>)

\* builtin min(a, b) / max(a, b): the first argument unless the second is smaller / larger
PyMin(a, b) == IF QLt(b, a) THEN b ELSE a
PyMax(a, b) == IF QLt(a, b) THEN b ELSE a

\* round(x, nd) with 10^nd = p: nearest multiple of 1/p, ties to the even multiple
RoundTo(x, p) ==
    IF ~IsFinite(x) THEN x
    ELSE LET m == x[1] * p
             q == m \div x[2]
             r == m - q * x[2]
             k == IF 2 * r < x[2] THEN q
                  ELSE IF 2 * r > x[2] THEN q + 1
                  ELSE IF q % 2 = 0 THEN q ELSE q + 1
         IN Q(k, p)

Round2(x) == RoundTo(x, 100)

\* the value of an expression, evaluated once
TheOnly(S) == CHOOSE x \in S : TRUE

-----------------------------------------------------------------------------
(* Price series: a DataFrame is a sequence of bars *)

None == [none |-> TRUE]
IsNone(r) == "none" \in DOMAIN r

Bar(o, h, l, c, v) == [open |-> o, high |-> h, low |-> l, close |-> c, volume |-> v]

TICK_VOLUME == 100

\* DerivAPIHandler.get_ohlc: every price of the tick history becomes one bar with
\* open = high = low = close = float(price) and volume 100
get_ohlc(prices) == [i \in 1..Len(prices) |-> Bar(prices[i], prices[i], prices[i], prices[i], Q(TICK_VOLUME, 1))]

LastClose(pd) == pd[Len(pd)].close

\* max(axis=1) of a row: NaN entries are skipped, an all-NaN row gives NaN
MaxSkipNa(a, b) == IF IsNaN(a) THEN b ELSE IF IsNaN(b) THEN a ELSE IF QLt(a, b) THEN b ELSE a

\* true range of bar i; close.shift() is NaN for the first bar
true_range(pd, i) ==
    LET prev == IF i = 1 THEN NaN ELSE pd[i - 1].close
        high_low == QSub(pd[i].high, pd[i].low)
        high_close == QAbs(QSub(pd[i].high, prev))
        low_close == QAbs(QSub(pd[i].low, prev))
    IN MaxSkipNa(MaxSkipNa(high_low, high_close), low_close)

RECURSIVE SumTR(_, _, _)
SumTR(pd, from, to) ==
    IF from > to THEN Zero ELSE QAdd(true_range(pd, from), SumTR(pd, from + 1, to))

\* true_range.rolling(window=w).mean().iloc[-1]: NaN with fewer than w bars or a NaN in the window
rolling_atr_last(pd, w) ==
    IF Len(pd) < w THEN NaN
    ELSE LET s == SumTR(pd, Len(pd) - w + 1, Len(pd))
         IN IF IsNaN(s) THEN NaN ELSE QDiv(s, Q(w, 1))

ATR_MIN_BARS == 14
ATR_WINDOW == 14
DEFAULT_ATR == 50

\* AdvancedTradingBot.calculate_atr
calculate_atr(pd) ==
    IF Len(pd) < ATR_MIN_BARS THEN Q(DEFAULT_ATR, 1)
    ELSE LET atr == rolling_atr_last(pd, ATR_WINDOW)
         IN IF ~IsNaN(atr) THEN atr ELSE Q(DEFAULT_ATR, 1)

-----------------------------------------------------------------------------
(* AdvancedTradingBot: the weighted aggregation *)

strategy_weights ==
    [ai_analysis |-> Q(35, 100), smc |-> Q(20, 100), trend |-> Q(15, 100),
     momentum |-> Q(15, 100), mean_reversion |-> Q(10, 100), breakout |-> Q(5, 100)]

DEFAULT_WEIGHT == Q(1, 10)

\* str.lower() on the strategy names that occur
Lower(s) ==
    CASE s = "AI_ANALYSIS" -> "ai_analysis"
      [] s = "SMC" -> "smc"
      [] s = "TREND" -> "trend"
      [] s = "MOMENTUM" -> "momentum"
      [] s = "MEAN_REVERSION" -> "mean_reversion"
      [] s = "BREAKOUT" -> "breakout"
      [] s = "VOLUME" -> "volume"
      [] OTHER -> s

\* self.strategy_weights.get(strategy_name, 0.1)
vote_weight(strategy) ==
    LET strategy_name == Lower(strategy.strategy)
    IN IF strategy_name \in DOMAIN strategy_weights
       THEN strategy_weights[strategy_name] ELSE DEFAULT_WEIGHT

\* the loop of calculate_weighted_signal over strategies[1..i], for one direction
RECURSIVE weighted_score(_, _, _)
weighted_score(strats, direction, i) ==
    IF i = 0 THEN Zero
    ELSE LET rest == weighted_score(strats, direction, i - 1)
         IN IF strats[i].direction = direction
            THEN QAdd(rest, QMul(strats[i].strength, vote_weight(strats[i])))
            ELSE rest

RECURSIVE total_weight(_, _)
total_weight(strats, i) ==
    IF i = 0 THEN Zero ELSE QAdd(total_weight(strats, i - 1), vote_weight(strats[i]))

\* the KeyError / IndexError the body of calculate_weighted_signal raises
cws_raises(strats) ==
    \/ \E i \in 1..Len(strats) : ~({"strategy", "strength", "direction"} \subseteq DOMAIN strats[i])
    \/ Len(strats) = 0
    \/ "entry" \notin DOMAIN strats[1]

\* the comparison of lines 564-572 with ties given to the bullish side
final_direction_ties_bullish(bullish_score, bearish_score) ==
    IF QLe(bearish_score, bullish_score) THEN "BULLISH" ELSE "BEARISH"

\* lines 564-572: the direction of the aggregated signal
final_direction(bullish_score, bearish_score) ==
    IF QLt(bearish_score, bullish_score) THEN "BULLISH"
    ELSE IF QLt(bullish_score, bearish_score) THEN "BEARISH"
    ELSE "NEUTRAL"

final_strength(bullish_score, bearish_score, tw) ==
    IF QLt(bearish_score, bullish_score) THEN PyMin(QDiv(bullish_score, tw), One)
    ELSE IF QLt(bullish_score, bearish_score) THEN PyMin(QDiv(bearish_score, tw), One)
    ELSE Zero

SL_ATR == Q(3, 2)
TP_ATR == Q(2, 1)

\* lines 578-586: stop-loss and take-profit of the aggregated signal
cws_risk_levels(direction, current_price, atr) ==
    IF direction = "BULLISH"
    THEN [stop_loss |-> QSub(current_price, QMul(atr, SL_ATR)),
          take_profit |-> QAdd(current_price, QMul(atr, TP_ATR))]
    ELSE IF direction = "BEARISH"
    THEN [stop_loss |-> QAdd(current_price, QMul(atr, SL_ATR)),
          take_profit |-> QSub(current_price, QMul(atr, TP_ATR))]
    ELSE [stop_loss |-> current_price, take_profit |-> current_price]

\* line 594
cws_risk_reward(take_profit, stop_loss, current_price) ==
    IF stop_loss # current_price
    THEN QAbs(QDiv(QSub(take_profit, current_price), QSub(stop_loss, current_price)))
    ELSE Zero

\* strategies[0].get('price_data', pd.DataFrame())
vote_price_data(strategy) ==
    IF "price_data" \in DOMAIN strategy THEN strategy.price_data ELSE <<>>

\* the local variables of calculate_weighted_signal when it reaches its return
cws_locals(strats) ==
    IF cws_raises(strats) THEN [raised |-> TRUE]
    ELSE LET n == Len(strats)
         IN [raised |-> FALSE,
             bullish_score |-> weighted_score(strats, "BULLISH", n),
             bearish_score |-> weighted_score(strats, "BEARISH", n),
             total_weight |-> total_weight(strats, n),
             current_price |-> strats[1].entry,
             atr |-> calculate_atr(vote_price_data(strats[1]))]

\* lines 563-595: the returned dict, from the locals l
cws_result(l) ==
    IF l.raised THEN [direction |-> "NEUTRAL", strength |-> Zero]
    ELSE LET dir == final_direction(l.bullish_score, l.bearish_score)
             lv == cws_risk_levels(dir, l.current_price, l.atr)
         IN [direction |-> dir,
             strength |-> QMul(final_strength(l.bullish_score, l.bearish_score, l.total_weight), Q(10, 1)),
             entry_price |-> l.current_price,
             stop_loss |-> lv.stop_loss,
             take_profit |-> lv.take_profit,
             risk_reward |-> cws_risk_reward(lv.take_profit, lv.stop_loss, l.current_price)]

\* AdvancedTradingBot.calculate_weighted_signal
calculate_weighted_signal(strats) ==
    TheOnly({cws_result(l) : l \in {cws_locals(strats)}})

-----------------------------------------------------------------------------
(* AIAnalysisEngine: the enrichment vote *)

\* AIAnalysisEngine.get_fallback_signal (price_data is never empty where it is called)
get_fallback_signal(pd) ==
    LET current_price == LastClose(pd)
    IN [direction |-> "NEUTRAL", strength |-> Zero, confidence |-> Zero,
        entry_price |-> current_price,
        stop_loss |-> QMul(current_price, Q(98, 100)),
        take_profit |-> QMul(current_price, Q(102, 100)),
        risk_reward |-> One, ai_confidence |-> Zero,
        is_ai_enhanced |-> FALSE, fallback_reason |-> "AI_analysis_failed"]

\* AIAnalysisEngine.combine_ai_analyses: the vote of the three sub-analyses and the
\* weighted score, reported on the 0-10 scale
combine_ai_analyses(direction, total_score) ==
    [direction |-> direction,
     strength |-> PyMin(Q(10, 1), QMul(total_score, Q(10, 1))),
     confidence |-> total_score,
     ai_weighted_score |-> total_score]

\* AIAnalysisEngine.analyze_with_ai: ai.ok is FALSE when a step of the analysis raises
analyze_with_ai(ai, pd) ==
    IF ai.ok
    THEN [ai_confidence |-> ai.confidence, is_ai_enhanced |-> TRUE]
         @@ combine_ai_analyses(ai.direction, ai.total_score)
    ELSE get_fallback_signal(pd)

-----------------------------------------------------------------------------
(* AdvancedTradingBot.generate_signal *)

Some(x) == [value |-> x]

\* AdvancedTradingBot.get_live_price: None without a tick or with a falsy quote
\* (a response whose tick has no quote behaves as a response without a tick)
get_live_price(response) ==
    IF response.tick /\ response.quote # Zero THEN Some(response.quote) ELSE None

SYNTH_BARS == 100

\* the i-th synthetic close around the quote: base_price + noise, the normal noise
\* being one of a few alternating patterns of noise standard deviations
\* (one standard deviation is base_price * 0.001)
synthetic_price(quote, noise, i) ==
    IF i % 2 = 0 THEN QAdd(quote, QMul(noise, QMul(quote, Q(1, 1000)))) ELSE quote

\* AdvancedTradingBot.get_price_data for a response that has a tick:
\* 100 bars open = close = p, high = p * 1.001, low = p * 0.999, volume 100
get_price_data(quote, noise) ==
    [i \in 1..SYNTH_BARS |->
        LET p == synthetic_price(quote, noise, i)
        IN Bar(p, QMul(p, Q(1001, 1000)), QMul(p, Q(999, 1000)), p, Q(TICK_VOLUME, 1))]

\* the return dict of one strategy evaluator that did not raise
evaluator_vote(name, out, pd) ==
    [strategy |-> name, direction |-> out[1], strength |-> out[2], entry |-> LastClose(pd)]

\* lines 492-520: the six votes in the order generate_signal appends them
build_strategies(ai_signal, ev, pd) ==
    <<ai_signal,
      evaluator_vote("SMC", ev.smc, pd),
      evaluator_vote("TREND", ev.trend, pd),
      evaluator_vote("MOMENTUM", ev.momentum, pd),
      evaluator_vote("MEAN_REVERSION", ev.mean_reversion, pd),
      evaluator_vote("BREAKOUT", ev.breakout, pd)>>

\* lines 526-534: final_signal.update(...); 'symbol' and 'timestamp' are left out
\* and 'strategies' is the variable strategies
add_metadata(final_signal, current_price, ai_signal) ==
    [current_price |-> current_price, is_simulated |-> FALSE, ai_enhanced |-> TRUE,
     ai_confidence |-> IF "ai_confidence" \in DOMAIN ai_signal THEN ai_signal.ai_confidence ELSE Zero]
    @@ final_signal

\* lines 492-537 of generate_signal, once the price and the bars are there
run_strategies(current_price, pd, ai, ev) ==
    LET ai_signal == analyze_with_ai(ai, pd)
        strats == build_strategies(ai_signal, ev, pd)
        final_signal == calculate_weighted_signal(strats)
    IN [ret |-> add_metadata(final_signal, current_price, ai_signal),
        strategies |-> strats, price_data |-> pd, locals |-> cws_locals(strats)]

\* AdvancedTradingBot.generate_signal; the result carries the values of its locals
generate_signal(tick1, tick2, noise, ai, ev) ==
    LET current_price == get_live_price(tick1)
        nothing == [ret |-> None, strategies |-> <<>>, price_data |-> <<>>, locals |-> None]
    IN IF IsNone(current_price) THEN nothing
       ELSE IF ~tick2.tick THEN nothing
       ELSE TheOnly({run_strategies(current_price.value, pd, ai, ev) :
                        pd \in {get_price_data(tick2.quote, noise)}})

-----------------------------------------------------------------------------
(* The strategy evaluators of AdvancedTradingBot *)

RECURSIVE Pow(_, _)
Pow(b, e) == IF e = 0 THEN 1 ELSE b * Pow(b, e - 1)

\* a/b < c/d for a, c >= 0 and b, d > 0, by the integer parts and then the
\* reciprocals of the remainders: no product is formed, so no integer grows
RECURSIVE FracLt(_, _, _, _)
FracLt(a, b, c, d) ==
    IF a \div b # c \div d THEN a \div b < c \div d
    ELSE IF c % d = 0 THEN FALSE
    ELSE IF a % b = 0 THEN TRUE
    ELSE FracLt(d, c % d, b, a % b)

\* x < y on floats, False when either is NaN; the same relation as QLt
QLess(x, y) ==
    /\ IsFinite(x)
    /\ IsFinite(y)
    /\ IF x[1] < 0 /\ y[1] >= 0 THEN TRUE
       ELSE IF x[1] >= 0 /\ y[1] < 0 THEN FALSE
       ELSE IF x[1] >= 0 THEN FracLt(x[1], x[2], y[1], y[2])
       ELSE FracLt(-y[1], y[2], -x[1], x[2])

Closes(pd) == [i \in 1..Len(pd) |-> pd[i].close]

\* Series.ewm(span=span).mean() with the pandas defaults adjust=True and
\* min_periods=0: the value at the last bar is the mean of all n values, the
\* value `age` bars back weighted (1 - alpha)^age with alpha = 2/(span + 1).
\* The weight of value j is scaled by (span + 1)^(n - 1) to an integer.
ewm_weight(span, n, j) == Pow(span - 1, n - j) * Pow(span + 1, j - 1)

RECURSIVE ewm_weighted_sum(_, _, _)
ewm_weighted_sum(xs, span, j) ==
    IF j = 0 THEN Zero
    ELSE QAdd(QMul(xs[j], Q(ewm_weight(span, Len(xs), j), 1)), ewm_weighted_sum(xs, span, j - 1))

RECURSIVE ewm_weights(_, _, _)
ewm_weights(span, n, j) ==
    IF j = 0 THEN 0 ELSE ewm_weight(span, n, j) + ewm_weights(span, n, j - 1)

ewm_mean_last(xs, span) ==
    QDiv(ewm_weighted_sum(xs, span, Len(xs)), Q(ewm_weights(span, Len(xs), Len(xs)), 1))

EMA_20 == 20
EMA_50 == 50
EMA_200 == 200

\* lines 161-168 of analyze_with_trend: the three EMAs at the last bar
trend_emas(pd) ==
    [ema_20 |-> ewm_mean_last(Closes(pd), EMA_20),
     ema_50 |-> ewm_mean_last(Closes(pd), EMA_50),
     ema_200 |-> ewm_mean_last(Closes(pd), EMA_200)]

\* the dict an evaluator returns from its except branch
evaluator_failed(name) == [strategy |-> name, direction |-> "NEUTRAL", strength |-> Zero]

\* the chain with two EMAs only: the long EMA is not consulted
trend_vote_two_emas(current_price, ema) ==
    LET out == IF QLess(ema.ema_20, current_price) /\ QLess(ema.ema_50, ema.ema_20)
               THEN <<"BULLISH", Q(9, 10)>>
               ELSE IF QLess(current_price, ema.ema_20) /\ QLess(ema.ema_20, ema.ema_50)
               THEN <<"BEARISH", Q(9, 10)>>
               ELSE <<"NEUTRAL", Zero>>
    IN [strategy |-> "TREND", direction |-> out[1], strength |-> out[2], entry |-> current_price,
        ema_20 |-> ema.ema_20, ema_50 |-> ema.ema_50, ema_200 |-> ema.ema_200]

\* lines 170-202 of analyze_with_trend: the if/elif chain over the close and the EMAs
trend_vote(current_price, ema) ==
    LET out == IF QLess(ema.ema_20, current_price) /\ QLess(ema.ema_50, ema.ema_20)
                  /\ QLess(ema.ema_200, ema.ema_50)
               THEN <<"BULLISH", Q(9, 10)>>
               ELSE IF QLess(current_price, ema.ema_20) /\ QLess(ema.ema_20, ema.ema_50)
                       /\ QLess(ema.ema_50, ema.ema_200)
               THEN <<"BEARISH", Q(9, 10)>>
               ELSE IF QLess(ema.ema_20, current_price) /\ QLess(ema.ema_50, ema.ema_20)
               THEN <<"BULLISH", Q(6, 10)>>
               ELSE IF QLess(current_price, ema.ema_20) /\ QLess(ema.ema_20, ema.ema_50)
               THEN <<"BEARISH", Q(6, 10)>>
               ELSE <<"NEUTRAL", Zero>>
    IN [strategy |-> "TREND", direction |-> out[1], strength |-> out[2], entry |-> current_price,
        ema_20 |-> ema.ema_20, ema_50 |-> ema.ema_50, ema_200 |-> ema.ema_200]

\* AdvancedTradingBot.analyze_with_trend: close.iloc[-1] of an empty frame raises
\* IndexError, which the except branch turns into the NEUTRAL dict
analyze_with_trend(pd) ==
    IF Len(pd) = 0 THEN evaluator_failed("TREND")
    ELSE TheOnly({trend_vote(LastClose(pd), ema) : ema \in {trend_emas(pd)}})

RECURSIVE SeqSum(_, _, _)
SeqSum(xs, from, to) == IF from > to THEN Zero ELSE QAdd(xs[from], SeqSum(xs, from + 1, to))

\* Series.rolling(w).mean().iloc[-1]: NaN with fewer than w values or a NaN in the window
rolling_mean_last(xs, w) ==
    IF Len(xs) < w THEN NaN ELSE QDiv(SeqSum(xs, Len(xs) - w + 1, Len(xs)), Q(w, 1))

RSI_WINDOW == 14

\* lines 212-214: delta.where(delta > 0, 0) and -delta.where(delta < 0, 0); the
\* diff of the first bar is NaN, fails both tests and becomes 0
momentum_gains(closes) ==
    [i \in 1..Len(closes) |->
        IF i > 1 /\ QLt(closes[i - 1], closes[i]) THEN QSub(closes[i], closes[i - 1]) ELSE Zero]
momentum_losses(closes) ==
    [i \in 1..Len(closes) |->
        IF i > 1 /\ QLt(closes[i], closes[i - 1]) THEN QSub(closes[i - 1], closes[i]) ELSE Zero]

\* lines 215-216: rs = gain / loss and rsi = 100 - 100 / (1 + rs) in float64:
\* a zero loss gives rs = inf and rsi = 100, 0/0 gives NaN
rsi_of(gain, loss) ==
    LET rs == QDiv(gain, loss)
    IN IF IsNaN(rs) THEN NaN
       ELSE IF rs = Inf THEN Q(100, 1)
       ELSE QSub(Q(100, 1), QDiv(Q(100, 1), QAdd(One, rs)))

\* lines 212-219: the RSI at the last bar
momentum_rsi(pd) ==
    rsi_of(rolling_mean_last(momentum_gains(Closes(pd)), RSI_WINDOW),
           rolling_mean_last(momentum_losses(Closes(pd)), RSI_WINDOW))

\* the chain with the RSI bounds included
momentum_vote_inclusive(current_price, current_rsi, macd, signal_line) ==
    LET out == IF QLe(Q(50, 1), current_rsi) /\ QLe(current_rsi, Q(70, 1)) /\ QLt(signal_line, macd)
               THEN <<"BULLISH", Q(8, 10)>>
               ELSE IF QLe(current_rsi, Q(50, 1)) /\ QLe(Q(30, 1), current_rsi) /\ QLt(macd, signal_line)
               THEN <<"BEARISH", Q(8, 10)>>
               ELSE <<"NEUTRAL", Zero>>
    IN [strategy |-> "MOMENTUM", direction |-> out[1], strength |-> out[2], entry |-> current_price,
        rsi |-> current_rsi, macd |-> macd, signal |-> signal_line]

\* lines 227-250 of analyze_with_momentum
momentum_vote(current_price, current_rsi, macd, signal_line) ==
    LET out == IF QLt(Q(50, 1), current_rsi) /\ QLt(current_rsi, Q(70, 1)) /\ QLt(signal_line, macd)
               THEN <<"BULLISH", Q(8, 10)>>
               ELSE IF QLt(current_rsi, Q(50, 1)) /\ QLt(Q(30, 1), current_rsi) /\ QLt(macd, signal_line)
               THEN <<"BEARISH", Q(8, 10)>>
               ELSE <<"NEUTRAL", Zero>>
    IN [strategy |-> "MOMENTUM", direction |-> out[1], strength |-> out[2], entry |-> current_price,
        rsi |-> current_rsi, macd |-> macd, signal |-> signal_line]

\* AdvancedTradingBot.analyze_with_momentum.  macd and signal_line are the
\* values of lines 222-225 at the last bar: differences of ewm means over the
\* whole series, which are given and not computed from the bars.
analyze_with_momentum(pd, macd, signal_line) ==
    IF Len(pd) = 0 THEN evaluator_failed("MOMENTUM")
    ELSE TheOnly({momentum_vote(LastClose(pd), r, macd, signal_line) : r \in {momentum_rsi(pd)}})

BB_WINDOW == 20
BB_STD == 2

RECURSIVE SumSqDev(_, _, _, _)
SumSqDev(xs, m, from, to) ==
    IF from > to THEN Zero
    ELSE QAdd(QMul(QSub(xs[from], m), QSub(xs[from], m)), SumSqDev(xs, m, from + 1, to))

\* the square of Series.rolling(w).std().iloc[-1]: the sample variance
\* (ddof = 1) of the last w values, NaN with fewer than w values or a NaN among them
rolling_var_last(xs, w) ==
    IF Len(xs) < w THEN NaN
    ELSE TheOnly({QDiv(SumSqDev(xs, m, Len(xs) - w + 1, Len(xs)), Q(w - 1, 1)) :
                     m \in {rolling_mean_last(xs, w)}})

\* lines 260-268: a band is the number mid + side * sqrt(width_sq), kept by its
\* parts because the root of a fraction is not a fraction; width_sq = (2 * std)^2
bollinger_band(closes, side) ==
    [mid |-> rolling_mean_last(closes, BB_WINDOW),
     width_sq |-> QMul(Q(BB_STD * BB_STD, 1), rolling_var_last(closes, BB_WINDOW)),
     side |-> side]

\* x <= lower band and x >= upper band: the distance to the mid line is on the
\* band's side and at least the width; False when the band is NaN
AtOrBelow(x, lower) ==
    LET d == QSub(lower.mid, x) IN QLe(Zero, d) /\ QLe(lower.width_sq, QMul(d, d))
AtOrAbove(x, upper) ==
    LET d == QSub(x, upper.mid) IN QLe(Zero, d) /\ QLe(upper.width_sq, QMul(d, d))

\* the chain with the upper band tested first
mean_reversion_vote_upper_first(current_price, current_upper, current_lower) ==
    LET out == IF AtOrAbove(current_price, current_upper) THEN <<"BEARISH", Q(7, 10)>>
               ELSE IF AtOrBelow(current_price, current_lower) THEN <<"BULLISH", Q(7, 10)>>
               ELSE <<"NEUTRAL", Zero>>
    IN [strategy |-> "MEAN_REVERSION", direction |-> out[1], strength |-> out[2],
        entry |-> current_price, sma |-> current_upper.mid,
        upper_band |-> current_upper, lower_band |-> current_lower]

\* lines 270-291 of analyze_with_mean_reversion
mean_reversion_vote(current_price, current_upper, current_lower) ==
    LET out == IF AtOrBelow(current_price, current_lower) THEN <<"BULLISH", Q(7, 10)>>
               ELSE IF AtOrAbove(current_price, current_upper) THEN <<"BEARISH", Q(7, 10)>>
               ELSE <<"NEUTRAL", Zero>>
    IN [strategy |-> "MEAN_REVERSION", direction |-> out[1], strength |-> out[2],
        entry |-> current_price, sma |-> current_upper.mid,
        upper_band |-> current_upper, lower_band |-> current_lower]

\* AdvancedTradingBot.analyze_with_mean_reversion
analyze_with_mean_reversion(pd) ==
    IF Len(pd) = 0 THEN evaluator_failed("MEAN_REVERSION")
    ELSE TheOnly({mean_reversion_vote(LastClose(pd), b[1], b[2]) :
                     b \in {<<bollinger_band(Closes(pd), 1), bollinger_band(Closes(pd), -1)>>}})

BREAKOUT_WINDOW == 20
VOLUME_FACTOR == Q(3, 2)

Column(pd, name) == [i \in 1..Len(pd) |-> pd[i][name]]

RECURSIVE SeqMax(_, _, _)
SeqMax(xs, from, to) ==
    IF from = to THEN xs[from]
    ELSE LET rest == SeqMax(xs, from + 1, to)
         IN IF IsNaN(xs[from]) \/ IsNaN(rest) THEN NaN
            ELSE IF QLt(rest, xs[from]) THEN xs[from] ELSE rest

\* Series.rolling(w).max().iloc[-1] and .min().iloc[-1]: the extreme of the last
\* w values, the last one included; NaN with fewer than w values or a NaN among them
rolling_max_last(xs, w) ==
    IF Len(xs) < w THEN NaN ELSE SeqMax(xs, Len(xs) - w + 1, Len(xs))
rolling_min_last(xs, w) ==
    QNeg(rolling_max_last([i \in 1..Len(xs) |-> QNeg(xs[i])], w))

\* lines 312-335 of analyze_with_breakout
breakout_vote(current_price, current_high, current_low, current_volume, volume_sma) ==
    LET loud == QLt(QMul(volume_sma, VOLUME_FACTOR), current_volume)
        out == IF QLt(current_high, current_price) /\ loud THEN <<"BULLISH", Q(8, 10)>>
               ELSE IF QLt(current_price, current_low) /\ loud THEN <<"BEARISH", Q(8, 10)>>
               ELSE <<"NEUTRAL", Zero>>
    IN [strategy |-> "BREAKOUT", direction |-> out[1], strength |-> out[2],
        entry |-> current_price, resistance |-> current_high, support |-> current_low,
        volume |-> current_volume]

\* AdvancedTradingBot.analyze_with_breakout
analyze_with_breakout(pd) ==
    IF Len(pd) = 0 THEN evaluator_failed("BREAKOUT")
    ELSE breakout_vote(LastClose(pd),
                       rolling_max_last(Column(pd, "high"), BREAKOUT_WINDOW),
                       rolling_min_last(Column(pd, "low"), BREAKOUT_WINDOW),
                       pd[Len(pd)].volume,
                       rolling_mean_last(Column(pd, "volume"), BREAKOUT_WINDOW))

\* Bars are numbered from 1: bar i of the model is price_data.iloc[i - 1], and
\* the 'time' of a zone is the number of its bar.

Rising(bar) == QLt(bar.open, bar.close)
Falling(bar) == QLt(bar.close, bar.open)

\* AdvancedTradingBot.detect_fvg: the loop body for bar i, then the rest of the loop
RECURSIVE detect_fvg_loop(_, _, _)
detect_fvg_loop(pd, i, fvg_zones) ==
    IF i > Len(pd) THEN fvg_zones
    ELSE detect_fvg_loop(pd, i + 1,
            IF QLt(pd[i].high, pd[i - 2].low) /\ Rising(pd[i - 1])
            THEN [fvg_zones EXCEPT !.bullish =
                     Append(@, [top |-> pd[i].high, bottom |-> pd[i - 2].low, time |-> i])]
            ELSE IF QLt(pd[i - 2].high, pd[i].low) /\ Falling(pd[i - 1])
            THEN [fvg_zones EXCEPT !.bearish =
                     Append(@, [top |-> pd[i - 2].high, bottom |-> pd[i].low, time |-> i])]
            ELSE fvg_zones)

detect_fvg(pd) == detect_fvg_loop(pd, 3, [bullish |-> <<>>, bearish |-> <<>>])

\* AdvancedTradingBot.detect_order_blocks: bar i between two bars of the other colour
RECURSIVE detect_order_blocks_loop(_, _, _)
detect_order_blocks_loop(pd, i, order_blocks) ==
    IF i > Len(pd) - 1 THEN order_blocks
    ELSE detect_order_blocks_loop(pd, i + 1,
            IF Rising(pd[i - 1]) /\ Falling(pd[i]) /\ Rising(pd[i + 1])
            THEN [order_blocks EXCEPT !.bullish = Append(@, pd[i].low)]
            ELSE IF Falling(pd[i - 1]) /\ Rising(pd[i]) /\ Falling(pd[i + 1])
            THEN [order_blocks EXCEPT !.bearish = Append(@, pd[i].high)]
            ELSE order_blocks)

detect_order_blocks(pd) == detect_order_blocks_loop(pd, 2, [bullish |-> <<>>, bearish |-> <<>>])

\* a detector that compares a bar with one neighbour on each side only
RECURSIVE detect_liquidity_three_bars_loop(_, _, _)
detect_liquidity_three_bars_loop(pd, i, liquidity_levels) ==
    IF i > Len(pd) - 1 THEN liquidity_levels
    ELSE detect_liquidity_three_bars_loop(pd, i + 1,
            IF \A k \in {i - 1, i + 1} : QLt(pd[k].high, pd[i].high)
            THEN Append(liquidity_levels, [level |-> pd[i].high, type |-> "resistance", time |-> i])
            ELSE IF \A k \in {i - 1, i + 1} : QLt(pd[i].low, pd[k].low)
            THEN Append(liquidity_levels, [level |-> pd[i].low, type |-> "support", time |-> i])
            ELSE liquidity_levels)

detect_liquidity_three_bars(pd) == detect_liquidity_three_bars_loop(pd, 2, <<>>)

\* AdvancedTradingBot.detect_liquidity: swing highs and lows over five bars
RECURSIVE detect_liquidity_loop(_, _, _)
detect_liquidity_loop(pd, i, liquidity_levels) ==
    IF i > Len(pd) - 2 THEN liquidity_levels
    ELSE detect_liquidity_loop(pd, i + 1,
            IF \A k \in {i - 2, i - 1, i + 1, i + 2} : QLt(pd[k].high, pd[i].high)
            THEN Append(liquidity_levels, [level |-> pd[i].high, type |-> "resistance", time |-> i])
            ELSE IF \A k \in {i - 2, i - 1, i + 1, i + 2} : QLt(pd[i].low, pd[k].low)
            THEN Append(liquidity_levels, [level |-> pd[i].low, type |-> "support", time |-> i])
            ELSE liquidity_levels)

detect_liquidity(pd) == detect_liquidity_loop(pd, 3, <<>>)

\* lines 125-151 of analyze_with_smc
smc_vote(current_price, fvg_zones, order_blocks, liquidity_levels) ==
    LET out == IF /\ Len(order_blocks.bullish) > 0
                  /\ QLt(order_blocks.bullish[Len(order_blocks.bullish)], current_price)
                  /\ Len(fvg_zones.bullish) > 0
               THEN <<"BULLISH", Q(8, 10)>>
               ELSE IF /\ Len(order_blocks.bearish) > 0
                       /\ QLt(current_price, order_blocks.bearish[Len(order_blocks.bearish)])
                       /\ Len(fvg_zones.bearish) > 0
               THEN <<"BEARISH", Q(8, 10)>>
               ELSE <<"NEUTRAL", Zero>>
    IN [strategy |-> "SMC", direction |-> out[1], strength |-> out[2], entry |-> current_price,
        fvg_zones |-> fvg_zones, order_blocks |-> order_blocks, liquidity |-> liquidity_levels]

\* AdvancedTradingBot.analyze_with_smc
analyze_with_smc(pd) ==
    IF Len(pd) = 0 THEN evaluator_failed("SMC")
    ELSE TheOnly({smc_vote(LastClose(pd), d[1], d[2], d[3]) :
                     d \in {<<detect_fvg(pd), detect_order_blocks(pd), detect_liquidity(pd)>>}})

-----------------------------------------------------------------------------
(* TechnicalAnalyzer: the pattern detectors *)

\* TechnicalAnalyzer.identify_fvg: the loop body for bar i, then the rest of the loop
RECURSIVE identify_fvg_loop(_, _, _)
identify_fvg_loop(df, i, fvgs) ==
    IF i > Len(df) THEN fvgs
    ELSE identify_fvg_loop(df, i + 1,
            IF QLt(df[i - 2].high, df[i].low)
            THEN Append(fvgs, [type |-> "bullish", start_index |-> i - 2, end_index |-> i,
                               top |-> df[i].low, bottom |-> df[i - 2].high,
                               size |-> QSub(df[i].low, df[i - 2].high), time |-> i])
            ELSE IF QLt(df[i].high, df[i - 2].low)
            THEN Append(fvgs, [type |-> "bearish", start_index |-> i - 2, end_index |-> i,
                               top |-> df[i - 2].low, bottom |-> df[i].high,
                               size |-> QSub(df[i - 2].low, df[i].high), time |-> i])
            ELSE fvgs)

\* the list cut after its first gap
identify_fvg_first_gap(df) ==
    LET fvgs == identify_fvg_loop(df, 3, <<>>) IN IF fvgs = <<>> THEN fvgs ELSE <<fvgs[1]>>

identify_fvg(df) == identify_fvg_loop(df, 3, <<>>)

VOLUME_SMA_WINDOW == 20
OB_LOOKBACK == 10

\* calculate_indicators, lines 46-48: the frame with its volume_sma column
with_volume_sma(pd) ==
    [i \in 1..Len(pd) |->
        [volume_sma |-> rolling_mean_last(SubSeq(Column(pd, "volume"), 1, i), VOLUME_SMA_WINDOW)]
        @@ pd[i]]

\* lines 145-153 and 161-169: the block is the bar before bar i
order_block(df, i, type) ==
    [type |-> type, index |-> i - 1, high |-> df[i - 1].high, low |-> df[i - 1].low,
     time |-> i - 1, strength |-> QDiv(df[i].volume, df[i].volume_sma)]

\* TechnicalAnalyzer.identify_order_blocks: the loop body for bar i, then the rest of the loop
RECURSIVE identify_order_blocks_loop(_, _, _)
identify_order_blocks_loop(df, i, order_blocks) ==
    IF i > Len(df) THEN order_blocks
    ELSE identify_order_blocks_loop(df, i + 1,
            IF /\ Rising(df[i])
               /\ QLt(df[i - 1].close, df[i].close)
               /\ QLt(QMul(df[i].volume_sma, VOLUME_FACTOR), df[i].volume)
            THEN Append(order_blocks, order_block(df, i, "bullish"))
            ELSE IF /\ Falling(df[i])
                    /\ QLt(df[i].close, df[i - 1].close)
                    /\ QLt(QMul(df[i].volume_sma, VOLUME_FACTOR), df[i].volume)
            THEN Append(order_blocks, order_block(df, i, "bearish"))
            ELSE order_blocks)

\* range(lookback, len(df)) with lookback = 10 starts at bar 11 of the model
identify_order_blocks(df) == identify_order_blocks_loop(df, OB_LOOKBACK + 1, <<>>)

SWEEP_LOOKBACK == 20
SWEEP_PULLBACK == Q(995, 1000)
SWEEP_BOUNCE == Q(1005, 1000)

\* TechnicalAnalyzer.identify_liquidity_sweeps with the default lookback:
\* recent_high and recent_low are taken over the last 20 bars, the latest included
identify_liquidity_sweeps(df) ==
    IF Len(df) < SWEEP_LOOKBACK THEN <<>>
    ELSE LET recent_high == rolling_max_last(Column(df, "high"), SWEEP_LOOKBACK)
             recent_low == rolling_min_last(Column(df, "low"), SWEEP_LOOKBACK)
             last == df[Len(df)]
         IN IF QLt(recent_high, last.high)
            THEN IF Falling(last) /\ QLt(last.close, QMul(recent_high, SWEEP_PULLBACK))
                 THEN <<[type |-> "high_sweep", level |-> recent_high, time |-> Len(df),
                         sweep_high |-> last.high]>>
                 ELSE <<>>
            ELSE IF QLt(last.low, recent_low)
            THEN IF Rising(last) /\ QLt(QMul(recent_low, SWEEP_BOUNCE), last.close)
                 THEN <<[type |-> "low_sweep", level |-> recent_low, time |-> Len(df),
                         sweep_low |-> last.low]>>
                 ELSE <<>>
            ELSE <<>>

\* lines 298-359 of get_signal_strength: each indicator factor as <<score, max>>;
\* a NaN indicator is left out of both sums
rsi_factor(rsi) ==
    IF IsNaN(rsi) THEN <<0, 0>>
    ELSE IF QLt(rsi, Q(30, 1)) THEN <<2, 2>>
    ELSE IF QLt(Q(70, 1), rsi) THEN <<-2, 2>>
    ELSE IF QLe(Q(40, 1), rsi) /\ QLe(rsi, Q(60, 1)) THEN <<0, 2>>
    ELSE IF QLt(Q(50, 1), rsi) THEN <<1, 2>>
    ELSE <<-1, 2>>

bollinger_factor(bb_position) ==
    IF IsNaN(bb_position) THEN <<0, 0>>
    ELSE IF QLt(bb_position, Q(1, 10)) THEN <<2, 2>>
    ELSE IF QLt(Q(9, 10), bb_position) THEN <<-2, 2>>
    ELSE <<0, 2>>

ema_factor(close, ema_fast, ema_slow) ==
    IF IsNaN(ema_fast) \/ IsNaN(ema_slow) THEN <<0, 0>>
    ELSE IF QLt(ema_fast, close) /\ QLt(ema_slow, ema_fast) THEN <<2, 2>>
    ELSE IF QLt(close, ema_fast) /\ QLt(ema_fast, ema_slow) THEN <<-2, 2>>
    ELSE <<0, 2>>

macd_factor(macd, macd_signal, macd_histogram) ==
    IF IsNaN(macd) \/ IsNaN(macd_signal) THEN <<0, 0>>
    ELSE IF QLt(macd_signal, macd) /\ QLt(Zero, macd_histogram) THEN <<1, 1>>
    ELSE IF QLt(macd, macd_signal) /\ QLt(macd_histogram, Zero) THEN <<-1, 1>>
    ELSE <<0, 1>>

\* lines 361-381: the detections on the last 20 bars; fvgs, order_blocks and
\* sweeps tell whether each list is non-empty
smc_factor(fvgs, order_blocks, sweeps) ==
    <<(IF fvgs THEN 1 ELSE 0) + (IF order_blocks THEN 1 ELSE 0) + (IF sweeps THEN 2 ELSE 0), 4>>

\* lines 383-388: the score on the scale 0-10
normalized_strength(total_score, max_score) ==
    IF max_score > 0
    THEN PyMax(Zero, PyMin(Q(10, 1), QMul(Q(total_score + max_score, 2 * max_score), Q(10, 1))))
    ELSE Zero

\* a direction that follows the sign of the raw score alone
signal_direction_by_sign(strength, total_score) ==
    IF total_score > 0 THEN "bullish" ELSE IF total_score < 0 THEN "bearish" ELSE "neutral"

\* lines 390-396: the direction
signal_direction(strength, total_score) ==
    IF QLt(Q(6, 1), strength) THEN (IF total_score > 0 THEN "bullish" ELSE "bearish")
    ELSE IF QLt(strength, Q(4, 1)) THEN "neutral"
    ELSE (IF total_score > 0 THEN "bullish" ELSE "bearish")

\* lines 293-403 of get_signal_strength on the latest row `current`; the key
\* 'factors' is left out
score_signal(current, smc) ==
    LET parts == <<rsi_factor(current.rsi), bollinger_factor(current.bb_position),
                   ema_factor(current.close, current.ema_fast, current.ema_slow),
                   macd_factor(current.macd, current.macd_signal, current.macd_histogram),
                   smc_factor(smc.fvgs, smc.order_blocks, smc.sweeps)>>
        total_score == parts[1][1] + parts[2][1] + parts[3][1] + parts[4][1] + parts[5][1]
        max_score == parts[1][2] + parts[2][2] + parts[3][2] + parts[4][2] + parts[5][2]
        strength == normalized_strength(total_score, max_score)
    IN [strength |-> RoundTo(strength, 10),
        direction |-> signal_direction(strength, total_score),
        raw_score |-> total_score, max_score |-> max_score]

SIGNAL_MIN_BARS == 50

\* TechnicalAnalyzer.get_signal_strength, lines 289-291: the guard on the length
\* of the frame; `scored` is what lines 293-403 return for a longer frame, and
\* the key 'factors' is left out
get_signal_strength(df, scored) ==
    IF Len(df) < SIGNAL_MIN_BARS THEN [strength |-> Zero, direction |-> "neutral"] ELSE scored

-----------------------------------------------------------------------------
(* TechnicalAnalyzer: the indicator columns *)

RSI_PERIOD == 14
BB_PERIOD == 20
BB_STD_DEV == 2
MACD_FAST == 12
MACD_SLOW == 26

Prefix(xs, i) == SubSeq(xs, 1, i)

\* TechnicalAnalyzer.calculate_rsi: the column, bar by bar (a rolling mean at
\* bar i reads the bars up to i only)
calculate_rsi(prices, period) ==
    [i \in 1..Len(prices) |->
        rsi_of(rolling_mean_last(Prefix(momentum_gains(prices), i), period),
               rolling_mean_last(Prefix(momentum_losses(prices), i), period))]

\* TechnicalAnalyzer.calculate_bollinger_bands: upper, middle and lower column;
\* a band is kept by its mid line and the square of its distance to it
calculate_bollinger_bands(prices, period, std) ==
    LET band(i, side) ==
            [mid |-> rolling_mean_last(Prefix(prices, i), period),
             width_sq |-> QMul(Q(std * std, 1), rolling_var_last(Prefix(prices, i), period)),
             side |-> side]
    IN [upper |-> [i \in 1..Len(prices) |-> band(i, 1)],
        middle |-> [i \in 1..Len(prices) |-> rolling_mean_last(Prefix(prices, i), period)],
        lower |-> [i \in 1..Len(prices) |-> band(i, -1)]]

\* TechnicalAnalyzer.calculate_macd, the MACD line: ewm(fast) - ewm(slow), on
\* the first `bars` bars of the column (an ewm mean at bar i reads the bars up to i)
calculate_macd(prices, fast, slow, bars) ==
    [i \in 1..bars |->
        QSub(ewm_mean_last(Prefix(prices, i), fast), ewm_mean_last(Prefix(prices, i), slow))]

\* TechnicalAnalyzer.calculate_indicators: the RSI, Bollinger and MACD columns
\* of the frame; the MACD column is computed on the first ewm_bars bars
calculate_indicators(df, ewm_bars) ==
    LET bb == calculate_bollinger_bands(Closes(df), BB_PERIOD, BB_STD_DEV)
    IN [rsi |-> calculate_rsi(Closes(df), RSI_PERIOD),
        bb_upper |-> bb.upper, bb_middle |-> bb.middle, bb_lower |-> bb.lower,
        macd |-> calculate_macd(Closes(df), MACD_FAST, MACD_SLOW, ewm_bars)]

-----------------------------------------------------------------------------
(* SignalGenerator: analyze_symbol and the risk sizing *)

MIN_POSITION == Q(1, 100)
MAX_POSITION == Q(1, 10)

\* the sizing of lines 432-436 without the limits of lines 439-442
calculate_position_size_unlimited(risk_amount, entry_price, stop_loss) ==
    IF QAbs(QSub(entry_price, stop_loss)) = Zero THEN Q(1, 100)
    ELSE QDiv(risk_amount, QAbs(QSub(entry_price, stop_loss)))

\* SignalGenerator.calculate_position_size
calculate_position_size(risk_amount, entry_price, stop_loss) ==
    LET risk_per_unit == QAbs(QSub(entry_price, stop_loss))
    IN IF risk_per_unit = Zero THEN Q(1, 100)
       ELSE LET position_size == QDiv(risk_amount, risk_per_unit)
            IN PyMax(MIN_POSITION, PyMin(position_size, MAX_POSITION))

\* SignalGenerator.normalize_deriv_price: validate_and_log_price returns round(raw_price, 2)
normalize_deriv_price(raw_price) == Round2(raw_price)

SPREAD_FACTOR == Q(1, 10000)

\* SignalGenerator.get_current_price for a received tick: (bid, ask, is_simulated)
get_current_price(raw_price) ==
    LET normalized_price == normalize_deriv_price(raw_price)
        spread == QMul(normalized_price, SPREAD_FACTOR)
    IN [bid |-> Round2(QSub(normalized_price, spread)),
        ask |-> Round2(QAdd(normalized_price, spread)),
        is_simulated |-> FALSE]

MIN_BARS == 50
TA_ATR_PERIOD == 14
MIN_ACCOUNT_BALANCE == 5
RISK_PERCENTAGE == 1

SG_SL_ATR == Q(3, 2)
SG_TP_ATR == Q(5, 2)

\* lines 364-376: entry, stop-loss and take-profit by direction
sg_risk_levels(direction, bid, ask, current_price, atr) ==
    IF direction = "bullish"
    THEN [entry_price |-> ask,
          stop_loss |-> QSub(current_price, QMul(atr, SG_SL_ATR)),
          take_profit |-> QAdd(current_price, QMul(atr, SG_TP_ATR))]
    ELSE IF direction = "bearish"
    THEN [entry_price |-> bid,
          stop_loss |-> QAdd(current_price, QMul(atr, SG_SL_ATR)),
          take_profit |-> QSub(current_price, QMul(atr, SG_TP_ATR))]
    ELSE [entry_price |-> current_price,
          stop_loss |-> QSub(current_price, QMul(atr, SG_SL_ATR)),
          take_profit |-> QAdd(current_price, QMul(atr, SG_TP_ATR))]

\* line 411: abs(take_profit - entry_price) / abs(stop_loss - entry_price)
sg_risk_reward(take_profit, stop_loss, entry_price) ==
    QDiv(QAbs(QSub(take_profit, entry_price)), QAbs(QSub(stop_loss, entry_price)))

\* lines 378-423 of analyze_symbol: normalisation, sizing and the returned dict.
\* py_float: ticks.iloc[-1]['close'] is a Python float rather than a numpy float
\* (which of the two the row of a mixed-dtype frame yields is left to pandas); then,
\* with the fallback ATR, every operand of line 411 is a Python float and a zero
\* denominator raises ZeroDivisionError, which the except branch turns into None.
\* Otherwise the operands are numpy floats and the division gives inf or nan.
sg_result(signal_strength, lcl, lv, py_float) ==
    LET entry_price == normalize_deriv_price(lv.entry_price)
        stop_loss == normalize_deriv_price(lv.stop_loss)
        take_profit == normalize_deriv_price(lv.take_profit)
        current_price == normalize_deriv_price(lcl.current_price)
        risk_amount == QMul(Q(MIN_ACCOUNT_BALANCE, 1), QDiv(Q(RISK_PERCENTAGE, 1), Q(100, 1)))
        position_size == calculate_position_size(risk_amount, entry_price, stop_loss)
        raises == py_float /\ IsNaN(lcl.data_atr) /\ stop_loss = entry_price
    IN IF raises THEN [ret |-> None, locals |-> [raised |-> TRUE] @@ lcl]
       ELSE [ret |-> [direction |-> signal_strength.direction,
                      strength |-> signal_strength.strength,
                      entry_price |-> Round2(entry_price),
                      stop_loss |-> Round2(stop_loss),
                      take_profit |-> Round2(take_profit),
                      position_size |-> Round2(position_size),
                      risk_reward_ratio |-> Round2(sg_risk_reward(take_profit, stop_loss, entry_price)),
                      current_price |-> Round2(current_price),
                      atr |-> Round2(lcl.atr),
                      is_simulated |-> FALSE],
             locals |-> [raised |-> FALSE] @@ lcl]

\* lines 351-362 of analyze_symbol: the mid price and the ATR with its fallback
sg_locals(data, price_info) ==
    LET current_price == QDiv(QAdd(price_info.bid, price_info.ask), Q(2, 1))
        data_atr == rolling_atr_last(data, TA_ATR_PERIOD)
    IN [bid |-> price_info.bid, ask |-> price_info.ask, current_price |-> current_price,
        data_atr |-> data_atr,
        atr |-> IF ~IsNaN(data_atr) THEN data_atr ELSE QMul(current_price, Q(1, 100))]

\* lines 345-423 of analyze_symbol, once the bars and the tick are there
sg_levels_and_result(signal_strength, lcl, py_float) ==
    TheOnly({sg_result(signal_strength, lcl, lv, py_float) :
                lv \in {sg_risk_levels(signal_strength.direction, lcl.bid, lcl.ask,
                                       lcl.current_price, lcl.atr)}})

analyze_bars(data, signal_strength, raw_price, py_float) ==
    TheOnly({sg_levels_and_result(signal_strength, lcl, py_float) :
                lcl \in {sg_locals(data, get_current_price(raw_price))}})

\* SignalGenerator.analyze_symbol: fetched is FALSE when fetch_data returns None,
\* ticked is FALSE when get_current_price returns None
analyze_symbol(fetched, data, signal_strength, ticked, raw_price, py_float) ==
    IF ~fetched \/ Len(data) < MIN_BARS THEN [ret |-> None, locals |-> None]
    ELSE IF ~ticked THEN [ret |-> None, locals |-> None]
    ELSE analyze_bars(data, signal_strength, raw_price, py_float)

-----------------------------------------------------------------------------
(* Analysis cycles of several instruments in progress at once *)

\* a cycle that has not started: no bars, no votes, no result
IdleCycle ==
    [stage |-> "idle", closes |-> <<>>, macd |-> <<Zero, Zero>>, stop_loss |-> Zero,
     strategies |-> <<>>, signal |-> None, position_size |-> None]

\* lines 498-520 of generate_signal: the evaluators of one cycle, on its own bars
run_evaluators(pd, macd, signal_line) ==
    <<analyze_with_smc(pd), analyze_with_trend(pd), analyze_with_momentum(pd, macd, signal_line),
      analyze_with_mean_reversion(pd), analyze_with_breakout(pd)>>

\* a list of votes kept in one place for all cycles: whichever cycle asks gets
\* the list of some cycle that holds one
shared_strategies(cs, s) ==
    LET holders == {t \in DOMAIN cs : cs[t].strategies # <<>>}
    IN cs[CHOOSE t \in holders : TRUE].strategies

\* line 492 and 523: `strategies` is a local list of the cycle, handed to
\* calculate_weighted_signal as its argument
cycle_strategies(cs, s) == cs[s].strategies

-----------------------------------------------------------------------------
(* SignalGenerator.fetch_data and the bars of DerivAPIHandler.get_ohlc *)

BARS_COUNT == 100
MOCK_PRICE == 5700

\* prices[-count:]
LastN(xs, n) == IF Len(xs) > n THEN SubSeq(xs, Len(xs) - n + 1, Len(xs)) ELSE xs

\* DerivAPIHandler.get_ohlc by what self.api.ticks gives: an exception whose
\* text holds "already subscribed", another exception, a reply with a tick
\* history, a reply with one tick, or a reply with neither
get_ohlc_reply(response, count) ==
    IF response.kind = "already_subscribed"
    THEN [df |-> get_ohlc(<<Q(MOCK_PRICE, 1)>>)]
    ELSE IF response.kind = "history"
    THEN IF Len(response.prices) = 0 THEN None
         ELSE [df |-> get_ohlc(LastN(response.prices, count))]
    ELSE IF response.kind = "tick"
    THEN [df |-> get_ohlc(<<IF "quote" \in DOMAIN response THEN response.quote ELSE Zero>>)]
    ELSE None

\* SignalGenerator.fetch_data: no frame of get_ohlc carries attrs['simulated']
fetch_data(connects, response, count) ==
    IF ~connects THEN None
    ELSE LET data == get_ohlc_reply(response, count)
         IN IF ~IsNone(data) /\ Len(data.df) > 0 THEN data ELSE None

-----------------------------------------------------------------------------
(* AutoScanner: the periodic scan and the channel broadcast *)

SIGNAL_STRENGTH_THRESHOLD == 7
VERY_STRONG == 9
ONE_HOUR == 3600

\* the symbols in the order of SignalGenerator.symbols (two of them)
ScanSymbolOrder == <<"Volatility 10 Index", "Boom 500 Index">>
ScanSymbols == {ScanSymbolOrder[i] : i \in DOMAIN ScanSymbolOrder}

\* the keys of a dict in insertion order
DictOrder(d) == SelectSeq(ScanSymbolOrder, LAMBDA s : s \in DOMAIN d)

\* SignalGenerator.scan_all_symbols: analysed[s] is what analyze_symbol returns for s
scan_all_symbols(analysed) ==
    LET kept == {s \in DOMAIN analysed :
                    /\ ~IsNone(analysed[s])
                    /\ QLe(Q(SIGNAL_STRENGTH_THRESHOLD, 1), analysed[s].strength)}
    IN [s \in kept |-> analysed[s]]

\* a coroutine function called without await gives a coroutine object, not its result
Coroutine(result) == [coroutine |-> result]
IsCoroutine(v) == DOMAIN v = {"coroutine"}

\* line 104: symbol, direction, strength with one decimal, timestamp to the
\* minute ('%Y%m%d_%H%M' names the minute the second falls in)
signal_id(symbol, signal) ==
    <<symbol, signal.direction, RoundTo(signal.strength, 10), signal.timestamp \div 60>>

\* lines 145-146: strptime of the last two parts of the id gives the start of the minute
signal_time(id) == id[4] * 60

\* a membership test that never finds the id
never_broadcasted(id, broadcasted) == FALSE

\* line 107
already_broadcasted(id, broadcasted) == id \in broadcasted

\* AutoScanner.broadcast_signals: the loop over the symbols left; delivered is
\* FALSE when broadcast_to_channel returns without a message in the channel
\* (no channel configured, or the send failed and was logged)
RECURSIVE broadcast_loop(_, _, _, _)
broadcast_loop(left, signals, st, delivered) ==
    IF left = <<>> THEN st
    ELSE LET id == signal_id(Head(left), signals[Head(left)])
         IN broadcast_loop(Tail(left), signals,
                IF already_broadcasted(id, st.broadcasted_signals)
                THEN [st EXCEPT !.skipped = @ \cup {id}]
                ELSE [st EXCEPT !.channel = IF delivered THEN Append(@, id) ELSE @,
                                !.broadcasted_signals = @ \cup {id}],
                delivered)

broadcast_signals(signals, st, delivered) ==
    broadcast_loop(DictOrder(signals), signals, st, delivered)

\* AutoScanner.cleanup_broadcasted_signals at current_time
cleanup_broadcasted_signals(broadcasted, current_time) ==
    {id \in broadcasted : ~(current_time - signal_time(id) > ONE_HOUR)}

\* AutoScanner.perform_scan from the value all_signals of line 56 on; the
\* attribute error of all_signals.items() on a coroutine object is caught by
\* the except branch of line 96
perform_scan(all_signals, st, current_time, delivered) ==
    IF IsCoroutine(all_signals) THEN [st EXCEPT !.raised = TRUE]
    ELSE IF DOMAIN all_signals = {} THEN st
    ELSE LET very_strong_signals ==
                 [s \in {k \in DOMAIN all_signals : QLe(Q(VERY_STRONG, 1), all_signals[k].strength)}
                     |-> all_signals[s]]
             sent == IF DOMAIN very_strong_signals # {}
                     THEN broadcast_signals(very_strong_signals, st, delivered)
                     ELSE st
         IN [sent EXCEPT !.passed = very_strong_signals,
                         !.last_scan_time = Some(current_time),
                         !.broadcasted_signals = cleanup_broadcasted_signals(@, current_time)]

\* the fields of the scanner and the channel, with what one call notes
ScannerState ==
    [broadcasted_signals |-> broadcasted_signals, channel |-> channel,
     last_scan_time |-> last_scan_time, skipped |-> {}, passed |-> <<>>, raised |-> FALSE]

-----------------------------------------------------------------------------
(* TelegramBotHandler: the positions recorded by the trade buttons *)

LOT_SIZE == Q(1, 100)

\* a dict with one key set
DictSet(d, k, v) == (k :> v) @@ d
\* a dict after del d[k]
DictDel(d, k) ==
    IF DOMAIN d \ {k} = {} THEN <<>> ELSE [x \in DOMAIN d \ {k} |-> d[x]]

HasPosition(positions, user_id, symbol) ==
    user_id \in DOMAIN positions /\ symbol \in DOMAIN positions[user_id]

\* lines 151-161 (201-210): the position of the pair is set, the user's dict
\* being created first when it is missing
record_position(positions, user_id, symbol, type, signal, now) ==
    LET users == IF user_id \in DOMAIN positions THEN positions
                 ELSE DictSet(positions, user_id, <<>>)
    IN [users EXCEPT ![user_id] =
           DictSet(@, symbol,
                   [type |-> type, entry |-> signal.entry_price, stop_loss |-> signal.stop_loss,
                    take_profit |-> signal.take_profit, timestamp |-> now, status |-> "OPEN"])]

\* execute_buy and execute_sell differ in the direction asked for and the type
\* recorded; signal is what generate_signal returned, reply_raises tells
\* whether query.edit_message_text of the confirmation raises
execute_order(positions, user_id, symbol, wanted, type, signal, now, reply_raises) ==
    IF ~IsNone(signal) /\ signal.direction = wanted
    THEN [user_positions |-> record_position(positions, user_id, symbol, type, signal, now),
          outcome |-> IF reply_raises THEN "failed" ELSE "executed"]
    ELSE [user_positions |-> positions, outcome |-> "signal_changed"]

\* TelegramBotHandler.execute_buy
execute_buy(positions, user_id, symbol, signal, now, reply_raises) ==
    execute_order(positions, user_id, symbol, "BULLISH", "BUY", signal, now, reply_raises)

\* TelegramBotHandler.execute_sell
execute_sell(positions, user_id, symbol, signal, now, reply_raises) ==
    execute_order(positions, user_id, symbol, "BEARISH", "SELL", signal, now, reply_raises)

\* lines 252-262: the profit and the fields set on the position object
closed_position(position, price, now) ==
    LET pnl == IF position.type = "BUY"
               THEN QMul(QSub(price, position.entry), LOT_SIZE)
               ELSE QMul(QSub(position.entry, price), LOT_SIZE)
    IN [close_price |-> price, pnl |-> pnl, close_time |-> now]
       @@ [position EXCEPT !.status = "CLOSED"]

\* TelegramBotHandler.execute_close; current_price is what get_live_price returned
execute_close(positions, user_id, symbol, current_price, now, reply_raises) ==
    IF ~HasPosition(positions, user_id, symbol)
    THEN [user_positions |-> positions, outcome |-> "no_position"]
    ELSE IF IsNone(current_price) \/ current_price.value = Zero
    THEN [user_positions |-> positions, outcome |-> "no_price"]
    ELSE LET closed == closed_position(positions[user_id][symbol], current_price.value, now)
         IN IF reply_raises
            THEN [user_positions |-> [positions EXCEPT ![user_id][symbol] = closed],
                  outcome |-> "failed"]
            ELSE [user_positions |-> [positions EXCEPT ![user_id] = DictDel(@, symbol)],
                  outcome |-> "closed"]

-----------------------------------------------------------------------------
(* Inputs *)

Directions == {"BULLISH", "BEARISH", "NEUTRAL"}

\* tick quotes of the broker
Quotes == {Q(100, 1)}

TickResponses == {[tick |-> FALSE, quote |-> Zero]} \cup {[tick |-> TRUE, quote |-> q] : q \in Quotes \cup {Zero}}

\* amplitude of the synthetic noise, in standard deviations
Noises == {Zero, One}

\* outcomes of the enrichment
AIOutcomes ==
    {[ok |-> FALSE, direction |-> "NEUTRAL", total_score |-> Zero, confidence |-> Zero]}
    \cup {[ok |-> TRUE, direction |-> d, total_score |-> Q(3, 4), confidence |-> c] :
            d \in Directions, c \in {Q(8, 10)}}

\* what each evaluator can return when it does not raise (lines 126-141, 171-192,
\* 227-240, 270-281, 312-325)
Sided(strength) == {<<"BULLISH", strength>>, <<"BEARISH", strength>>}
NeutralOut == <<"NEUTRAL", Zero>>
EvaluatorOutputs ==
    [smc : {NeutralOut} \cup Sided(Q(8, 10)),
     trend : {NeutralOut} \cup Sided(Q(9, 10)) \cup Sided(Q(6, 10)),
     momentum : {NeutralOut} \cup Sided(Q(8, 10)),
     mean_reversion : {NeutralOut} \cup Sided(Q(7, 10)),
     breakout : {NeutralOut} \cup Sided(Q(8, 10))]

\* number of evaluators that vote BULLISH or BEARISH in one cycle
MaxActive == 2

\* a tick history that alternates between base and base + delta
alt_prices(len, base, delta) ==
    [i \in 1..len |-> IF i % 2 = 0 THEN QAdd(base, delta) ELSE base]

\* the same history with a NaN as its last price
nan_tail(prices) ==
    [i \in 1..Len(prices) |-> IF i = Len(prices) THEN NaN ELSE prices[i]]

\* bars beyond the minimum length of a series
MaxExtraBars == 1
\* largest whole-number tick-to-tick move of a history
MaxDelta == 2

Deltas == {Zero, Q(3, 1000)} \cup {Q(k, 1) : k \in 1..MaxDelta}

\* prices the broker quotes for the analysed symbol
RawPrices == {Q(1, 5), Q(10, 1), Q(100004, 1000), Q(10000, 1)}

\* results of TechnicalAnalyzer.get_signal_strength on a frame of at least 50 bars
SignalStrengths ==
    {[direction |-> "bullish", strength |-> Q(75, 10)], [direction |-> "bullish", strength |-> Q(5, 1)],
     [direction |-> "bearish", strength |-> Q(5, 1)], [direction |-> "bearish", strength |-> Q(4, 1)],
     [direction |-> "neutral", strength |-> Q(35, 10)], [direction |-> "neutral", strength |-> Zero]}

\* the six evaluator names in the order of generate_signal, and a name the
\* weight table does not hold
SlotNames == <<"AI_ANALYSIS", "SMC", "TREND", "MOMENTUM", "MEAN_REVERSION", "BREAKOUT">>

VoteKeys == {"strategy", "strength", "direction", "entry"}

\* votes handed to calculate_weighted_signal: per evaluator NEUTRAL/0 or a side
\* with strength 0.6 or 0.8
VoteOutputs == {NeutralOut} \cup Sided(Q(6, 10)) \cup Sided(Q(8, 10))

VoteLists ==
    {outs \in [1..Len(SlotNames) -> VoteOutputs] :
        Cardinality({i \in DOMAIN outs : outs[i][1] # "NEUTRAL"}) <= MaxActive}

\* vote lists with at most one evaluator on a side, at strength 0.8
SingleVoteLists ==
    {outs \in [1..Len(SlotNames) -> {NeutralOut} \cup Sided(Q(8, 10))] :
        Cardinality({i \in DOMAIN outs : outs[i][1] # "NEUTRAL"}) <= 1}

\* lengths of the series handed to calculate_atr: one bar short of the window, the
\* window, and up to MaxExtraBars more
SeriesLengths == {ATR_MIN_BARS - 1} \cup {ATR_MIN_BARS + k : k \in 0..MaxExtraBars}

Without(d, key) == [k \in DOMAIN d \ {key} |-> d[k]]

\* the list of votes: evaluator i returned outs[i] for the bars pd; vote drop[1]
\* lacks the key drop[2] (the except branch of an evaluator returns a NEUTRAL/0
\* vote without 'entry'); with carry the first vote holds the bars under
\* 'price_data'; with alias the last vote is named VOLUME
make_votes(outs, pd, drop, carry, alias) ==
    [i \in 1..Len(SlotNames) |->
        LET name == IF alias /\ i = Len(SlotNames) THEN "VOLUME" ELSE SlotNames[i]
            v == evaluator_vote(name, outs[i], pd)
            w == IF carry /\ i = 1 THEN [price_data |-> pd] @@ v ELSE v
        IN IF drop[1] = i THEN Without(w, drop[2]) ELSE w]

\* risk amounts, entries and stops handed to calculate_position_size
MaxStopDist == 6
RiskAmounts == {Q(5, 100), Zero, Q(-5, 100), One, NaN}
Entries == {Q(100, 1)}
Stops ==
    {NaN, Q(10001, 100), Q(9975, 100)} \cup {Q(100 - k, 1) : k \in 0..MaxStopDist}


\* close series handed to analyze_with_trend: every series of at most
\* MaxTrendBars bars over three price levels, the empty one included
MaxTrendBars == 3
TrendLevels == {Q(1, 1), Q(2, 1), Q(3, 1)}
TrendCloses == UNION {[1..n -> TrendLevels] : n \in 0..MaxTrendBars}

\* a history of at least EMA_200 bars is given by its last close and the three
\* ewm values at the last bar, which are not computed from the bars
LongHistoryEmas == [ema_20 : TrendLevels, ema_50 : TrendLevels, ema_200 : TrendLevels]

\* closes of n bars that stay at base and end with `ups` rises and then `downs`
\* falls of one unit each
move_closes(n, base, ups, downs) ==
    [i \in 1..n |->
        LET k == i - (n - (ups + downs))
        IN IF k <= 0 THEN base
           ELSE IF k <= ups THEN QAdd(base, Q(k, 1))
           ELSE QAdd(base, Q(ups - (k - ups), 1))]

\* (rises, falls) in the RSI window: RSI undefined, 100, 0, 50, 60, 40, 70, 30, 80
MovePatterns == {<<0, 0>>, <<1, 0>>, <<0, 1>>, <<1, 1>>, <<3, 2>>, <<2, 3>>, <<7, 3>>, <<3, 7>>, <<4, 1>>}
MaxRsiExtraBars == 1
MomentumLengths == {0, 1, RSI_WINDOW - 1} \cup {RSI_WINDOW + k : k \in 0..MaxRsiExtraBars}
\* (macd, signal_line) at the last bar
MacdPairs == {<<Q(1, 10), Zero>>, <<Q(-1, 10), Zero>>, <<Zero, Zero>>}

\* closes for the Bollinger window: flat, a last bar one unit above or below a
\* flat window, a rise that ends inside the bands
MaxBandExtraBars == 1
BandLengths == {0, 1, BB_WINDOW - 1} \cup {BB_WINDOW + k : k \in 0..MaxBandExtraBars}
BandPatterns == {<<0, 0>>, <<1, 0>>, <<0, 1>>, <<3, 2>>, <<2, 3>>}

\* a flat series at 100 on volume 100 whose bar `spike` runs from 100 up to a
\* close of 130 (or down to a close of 70) on volume 1000
FixtureBars == 60
spike_series(n, spike, level) ==
    [i \in 1..n |->
        IF i = spike
        THEN Bar(Q(100, 1), PyMax(Q(100, 1), level), PyMin(Q(100, 1), level), level, Q(1000, 1))
        ELSE Bar(Q(100, 1), Q(100, 1), Q(100, 1), Q(100, 1), Q(100, 1))]
SpikeBars == {25, 40}
SpikeLevels == {Q(130, 1), Q(70, 1)}
\* the bars at which the series is evaluated: the prefix up to that bar
EvalBars(spike) ==
    {0, BREAKOUT_WINDOW - 1, BREAKOUT_WINDOW, spike - 1, spike, spike + 1,
     spike + BREAKOUT_WINDOW - 1, spike + BREAKOUT_WINDOW, FixtureBars}

\* candles for the pattern detectors: a body from lo to hi without wicks, rising or falling
Candle(lo, hi, rising) ==
    Bar(IF rising THEN lo ELSE hi, hi, lo, IF rising THEN hi ELSE lo, Q(TICK_VOLUME, 1))
LowUp == Candle(Q(9, 1), Q(10, 1), TRUE)
LowDown == Candle(Q(9, 1), Q(10, 1), FALSE)
HighUp == Candle(Q(11, 1), Q(12, 1), TRUE)
HighDown == Candle(Q(11, 1), Q(12, 1), FALSE)
WideUp == Candle(Q(9, 1), Q(12, 1), TRUE)
WideDown == Candle(Q(9, 1), Q(12, 1), FALSE)
Candles == {LowUp, LowDown, HighUp, HighDown, WideUp, WideDown}
MaxPatternBars == 4
\* the five bars high[0] = 10, low[0] = 9, high[2] = 12, low[2] = 11, bar 1 rising
fvg_fixture == <<LowUp, WideUp, HighUp, HighUp, HighUp>>
\* longer series: both setups at once, and an earlier block passed but not the last one
both_setups == <<LowUp, HighDown, HighUp, LowDown, LowUp>>
last_block_not_passed == <<LowUp, LowDown, LowUp, HighDown, LowUp, LowUp>>
PatternSeries ==
    UNION {[1..n -> Candles] : n \in 0..MaxPatternBars}
        \cup {fvg_fixture, both_setups, last_block_not_passed}

\* frames for identify_order_blocks: flat bars at 10 on volume 100, then a tail
\* of candles on volume 100 or 1000
flat_bars(n) == [i \in 1..n |-> Bar(Q(10, 1), Q(10, 1), Q(10, 1), Q(10, 1), Q(TICK_VOLUME, 1))]
LoudCandles == {[c EXCEPT !.volume = v] : c \in Candles, v \in {Q(TICK_VOLUME, 1), Q(1000, 1)}}
MaxTailBars == 2
TailSeries == UNION {[1..n -> LoudCandles] : n \in 1..MaxTailBars}
FlatLengths == {OB_LOOKBACK - 1, VOLUME_SMA_WINDOW - 2, VOLUME_SMA_WINDOW - 1}

\* latest bars for identify_liquidity_sweeps after flat bars at 100: a wick to
\* 105 closing at 99, at 99.5 and at 100, a wick to 95 closing at 101 and at
\* 100, and one more flat bar
SweepBars ==
    {Bar(Q(100, 1), Q(105, 1), Q(99, 1), Q(99, 1), Q(TICK_VOLUME, 1)),
     Bar(Q(100, 1), Q(105, 1), Q(995, 10), Q(995, 10), Q(TICK_VOLUME, 1)),
     Bar(Q(101, 1), Q(105, 1), Q(100, 1), Q(100, 1), Q(TICK_VOLUME, 1)),
     Bar(Q(100, 1), Q(101, 1), Q(95, 1), Q(101, 1), Q(TICK_VOLUME, 1)),
     Bar(Q(99, 1), Q(100, 1), Q(95, 1), Q(100, 1), Q(TICK_VOLUME, 1)),
     Bar(Q(100, 1), Q(100, 1), Q(100, 1), Q(100, 1), Q(TICK_VOLUME, 1))}
MaxSweepExtraBars == 1
\* the number of bars before the latest one
SweepLengths == {0, SWEEP_LOOKBACK - 2, SWEEP_LOOKBACK - 1} \cup {SWEEP_LOOKBACK + k : k \in 0..MaxSweepExtraBars}


\* bars for the swing detector: four ranges, so that a bar can stand out on
\* either side, on both or on none
MidUp == Candle(Q(10, 1), Q(11, 1), TRUE)
SwingCandles == {LowUp, HighUp, WideUp, MidUp}
MaxSwingBars == 6
SwingSeries == UNION {[1..n -> SwingCandles] : n \in 0..MaxSwingBars}

\* a series whose close rises by one unit per bar, from 1 up to n
rising_closes(n) == [i \in 1..n |-> Q(i, 1)]
RisingBars == 100
RisingLengths == {2, RSI_WINDOW - 1, RSI_WINDOW, RSI_WINDOW + 1, RisingBars}

\* close columns for the indicators: flat ones of every length around the two
\* windows, every short one, and flat ones that end with a few moves
IndicatorLengths == {RSI_PERIOD - 1, RSI_PERIOD, RSI_PERIOD + 1, BB_PERIOD - 1, BB_PERIOD, BB_PERIOD + 1}
IndicatorCloses ==
    TrendCloses
    \cup {[i \in 1..n |-> c] : n \in IndicatorLengths, c \in TrendLevels}
    \cup {move_closes(n, Q(100, 1), moves[1], moves[2]) :
             n \in {RSI_PERIOD + 1, BB_PERIOD + 1}, moves \in MovePatterns}
PyMinInt(a, b) == IF a < b THEN a ELSE b

\* instruments analysed at the same time, their bars, MACD values and stops
CycleSymbols == {"R_75", "BOOM500"}
CycleCloses == {<<Q(1, 1), Q(2, 1), Q(3, 1)>>, <<Q(3, 1), Q(2, 1), Q(1, 1)>>, <<Q(2, 1), Q(2, 1)>>}
CycleStops == {Zero, Q(1, 2)}
CYCLE_RISK == Q(5, 100)

\* what self.api.ticks gives to get_ohlc
ApiResponses ==
    {[kind |-> "already_subscribed"], [kind |-> "error"], [kind |-> "other"], [kind |-> "tick"]}
    \cup {[kind |-> "tick", quote |-> q] : q \in Quotes}
    \cup {[kind |-> "history", prices |-> alt_prices(len, q, d)] :
             len \in {0, 1, MIN_BARS, BARS_COUNT, BARS_COUNT + 1}, q \in Quotes, d \in {Zero, One}}

\* the latest row of an indicator frame: RSI, position within the bands, the
\* close against the two EMAs, and the MACD against its signal line
RsiLevels == {NaN} \cup {Q(r, 1) : r \in {20, 30, 35, 40, 50, 60, 65, 70, 80}}
BandPositions == {NaN, Q(5, 100), Q(1, 2), Q(95, 100)}
EmaRows ==
    {[close |-> Q(3, 1), ema_fast |-> Q(2, 1), ema_slow |-> Q(1, 1)],
     [close |-> Q(1, 1), ema_fast |-> Q(2, 1), ema_slow |-> Q(3, 1)],
     [close |-> Q(2, 1), ema_fast |-> Q(2, 1), ema_slow |-> Q(2, 1)],
     [close |-> Q(2, 1), ema_fast |-> Q(2, 1), ema_slow |-> NaN]}
MacdRows ==
    {[macd |-> m[1], macd_signal |-> m[2], macd_histogram |-> QSub(m[1], m[2])] : m \in MacdPairs}
    \cup {[macd |-> NaN, macd_signal |-> NaN, macd_histogram |-> NaN]}
IndicatorRows ==
    {[rsi |-> r, bb_position |-> b] @@ e @@ m :
        r \in RsiLevels, b \in BandPositions, e \in EmaRows, m \in MacdRows}
NeutralRow ==
    [rsi |-> NaN, bb_position |-> NaN, close |-> Q(2, 1), ema_fast |-> Q(2, 1), ema_slow |-> NaN,
     macd |-> NaN, macd_signal |-> NaN, macd_histogram |-> NaN]
\* whether identify_fvg, identify_order_blocks and identify_liquidity_sweeps
\* find anything on the last 20 bars
SmcFindings == [fvgs : BOOLEAN, order_blocks : BOOLEAN, sweeps : BOOLEAN]
NoFindings == [fvgs |-> FALSE, order_blocks |-> FALSE, sweeps |-> FALSE]

\* the instants at which the clock is read: every full hour and one second later
MaxHours == 1
Instants == {h * ONE_HOUR + e : h \in 0..MaxHours, e \in {0, 1}}

\* what analyze_symbol returns now: nothing, or a signal stamped with the clock
ScanSignal(symbol, direction, strength, now) ==
    [symbol |-> symbol, direction |-> direction, strength |-> strength, timestamp |-> now]
AnalysedNow(symbol, now) ==
    {None, ScanSignal(symbol, "bearish", Q(5, 1), now), ScanSignal(symbol, "bullish", Q(75, 10), now),
     ScanSignal(symbol, "bullish", Q(91, 10), now)}
Analyses(now) ==
    {a \in [ScanSymbols -> UNION {AnalysedNow(s, now) : s \in ScanSymbols}] :
        \A s \in ScanSymbols : a[s] \in AnalysedNow(s, now)}
\* dicts of very strong signals handed to broadcast_signals
VeryStrongDicts(now) ==
    {[s \in syms |-> ScanSignal(s, "bullish", Q(91, 10), now)] :
        syms \in SUBSET ScanSymbols \ {{}}}

\* the users and the symbols of the buttons
UserIds == {1, 2}
ButtonSymbols == {"R_75", "BOOM500"}

\* what generate_signal can hand back at click time: nothing, the two-key
\* result of a failed aggregation, or an aggregated result of each direction
ClickSignals ==
    {None, cws_result([raised |-> TRUE])}
    \cup {cws_result([raised |-> FALSE, bullish_score |-> s[1], bearish_score |-> s[2],
                      total_weight |-> One, current_price |-> Q(100, 1), atr |-> One]) :
             s \in {<<Q(3, 4), Zero>>, <<Zero, Q(3, 4)>>, <<Q(1, 4), Q(1, 4)>>}}


ActiveCount(ev) == Cardinality({k \in DOMAIN ev : ev[k][1] # "NEUTRAL"})

-----------------------------------------------------------------------------
(* Actions *)

Init ==
    /\ pc = "idle"
    /\ op = "none"
    /\ args = None
    /\ price_data = <<>>
    /\ strategies = <<>>
    /\ locals = None
    /\ ret = None
    /\ cycles = [s \in CycleSymbols |-> IdleCycle]
    /\ clock = 0
    /\ broadcasted_signals = {}
    /\ channel = <<>>
    /\ last_scan_time = None
    /\ user_positions = <<>>

\* one call of AdvancedTradingBot.generate_signal
GenerateSignal ==
    /\ pc = "idle"
    /\ \E tick1 \in TickResponses, tick2 \in TickResponses, noise \in Noises,
          ai \in AIOutcomes,
          ev \in {e \in EvaluatorOutputs : ActiveCount(e) <= MaxActive} :
          \E r \in {generate_signal(tick1, tick2, noise, ai, ev)} :
             /\ args' = [tick1 |-> tick1, tick2 |-> tick2, ai |-> ai]
             /\ price_data' = r.price_data
             /\ strategies' = r.strategies
             /\ locals' = r.locals
             /\ ret' = r.ret
    /\ op' = "generate_signal"
    /\ pc' = "done"
    /\ UNCHANGED <<workers, scanner, handler>>

\* one call of AdvancedTradingBot.calculate_weighted_signal on a list of votes.
\* The votes come from a run of the evaluators over the bars pd; the series is
\* varied where the first vote carries it, the votes where it does not.
CalculateWeightedSignal ==
    /\ pc = "idle"
    /\ \E carry \in BOOLEAN, alias \in BOOLEAN,
          drop \in {<<0, "none">>} \cup ((1..Len(SlotNames)) \X VoteKeys) :
          /\ alias => (~carry /\ drop[1] = 0)
          /\ carry => drop[1] = 0
          /\ \E outs \in (IF carry \/ drop[1] # 0 THEN SingleVoteLists ELSE VoteLists),
                len \in (IF carry THEN SeriesLengths ELSE {ATR_MIN_BARS}),
                delta \in (IF carry THEN {Zero, Q(MaxDelta, 1)} ELSE {Q(MaxDelta, 1)}) :
                \E pd \in {get_ohlc(alt_prices(len, Q(100, 1), delta))} :
                \E strats \in {make_votes(outs, pd, drop, carry, alias)} :
                   /\ price_data' = pd
                   /\ strategies' = strats
                   /\ \E l \in {cws_locals(strats)} :
                         /\ locals' = l
                         /\ ret' = cws_result(l)
          /\ args' = [carry |-> carry]
    /\ op' = "calculate_weighted_signal"
    /\ pc' = "done"
    /\ UNCHANGED <<workers, scanner, handler>>

\* one call of SignalGenerator.analyze_symbol
AnalyzeSymbol ==
    /\ pc = "idle"
    /\ \E fetched \in BOOLEAN, ticked \in BOOLEAN, py_float \in BOOLEAN, with_nan \in BOOLEAN,
          len \in {MIN_BARS - 1} \cup {MIN_BARS + k : k \in 0..MaxExtraBars},
          raw_price \in RawPrices, delta \in Deltas, sig \in SignalStrengths :
          /\ ~fetched => (len = MIN_BARS /\ delta = Zero /\ ~with_nan)
          /\ \E prices \in {alt_prices(len, raw_price, delta)} :
             \E data \in {get_ohlc(IF with_nan THEN nan_tail(prices) ELSE prices)} :
             \E r \in {analyze_symbol(fetched, data, sig, ticked, raw_price, py_float)} :
                /\ price_data' = IF fetched THEN data ELSE <<>>
                /\ locals' = r.locals
                /\ ret' = r.ret
          /\ args' = [fetched |-> fetched, ticked |-> ticked, raw_price |-> raw_price,
                      signal_strength |-> sig, py_float |-> py_float]
    /\ strategies' = <<>>
    /\ op' = "analyze_symbol"
    /\ pc' = "done"
    /\ UNCHANGED <<workers, scanner, handler>>

\* one call of SignalGenerator.calculate_position_size
CalculatePositionSize ==
    /\ pc = "idle"
    /\ \E risk_amount \in RiskAmounts, entry_price \in Entries \cup {NaN}, stop_loss \in Stops :
          /\ args' = [risk_amount |-> risk_amount, entry_price |-> entry_price, stop_loss |-> stop_loss]
          /\ ret' = [position_size |-> calculate_position_size(risk_amount, entry_price, stop_loss)]
    /\ op' = "calculate_position_size"
    /\ UNCHANGED <<price_data, strategies, locals>>
    /\ pc' = "done"
    /\ UNCHANGED <<workers, scanner, handler>>

\* one call of AdvancedTradingBot.analyze_with_trend, on a short series whose
\* EMAs are computed or on a history of EMA_200 bars whose EMAs are drawn; of
\* the long history price_data keeps the latest bar only
AnalyzeWithTrend ==
    /\ pc = "idle"
    /\ \/ \E closes \in TrendCloses :
             \E pd \in {get_ohlc(closes)} :
                /\ args' = [bars |-> Len(pd)]
                /\ price_data' = pd
                /\ ret' = analyze_with_trend(pd)
       \/ \E close \in TrendLevels, ema \in LongHistoryEmas :
             /\ args' = [bars |-> EMA_200]
             /\ price_data' = get_ohlc(<<close>>)
             /\ ret' = trend_vote(close, ema)
    /\ op' = "analyze_with_trend"
    /\ UNCHANGED <<strategies, locals>>
    /\ pc' = "done"
    /\ UNCHANGED <<workers, scanner, handler>>

\* one call of AdvancedTradingBot.analyze_with_momentum; a series of NaN closes
\* has NaN ewm means
AnalyzeWithMomentum ==
    /\ pc = "idle"
    /\ \/ \E n \in MomentumLengths, moves \in MovePatterns, m \in MacdPairs, all_nan \in BOOLEAN :
             /\ moves[1] + moves[2] < n \/ moves = <<0, 0>>
             /\ all_nan => (moves = <<0, 0>> /\ m = <<Zero, Zero>>)
             /\ \E pd \in {get_ohlc(IF all_nan THEN [i \in 1..n |-> NaN]
                                    ELSE move_closes(n, Q(100, 1), moves[1], moves[2]))} :
                \E macd \in {IF all_nan THEN NaN ELSE m[1]},
                   signal_line \in {IF all_nan THEN NaN ELSE m[2]} :
                   /\ args' = [bars |-> n, macd |-> macd, signal |-> signal_line]
                   /\ price_data' = pd
                   /\ ret' = analyze_with_momentum(pd, macd, signal_line)
       \/ \E n \in RisingLengths, m \in MacdPairs :
             \E pd \in {get_ohlc(rising_closes(n))} :
                /\ args' = [bars |-> n, macd |-> m[1], signal |-> m[2]]
                /\ price_data' = pd
                /\ ret' = analyze_with_momentum(pd, m[1], m[2])
    /\ op' = "analyze_with_momentum"
    /\ UNCHANGED <<strategies, locals>>
    /\ pc' = "done"
    /\ UNCHANGED <<workers, scanner, handler>>

\* one call of AdvancedTradingBot.analyze_with_mean_reversion
AnalyzeWithMeanReversion ==
    /\ pc = "idle"
    /\ \E n \in BandLengths, moves \in BandPatterns, with_nan \in BOOLEAN :
          /\ moves[1] + moves[2] < n \/ moves = <<0, 0>>
          /\ with_nan => (n > 1 /\ moves = <<1, 0>>)
          /\ \E closes \in {move_closes(n, Q(100, 1), moves[1], moves[2])} :
             \E pd \in {get_ohlc(IF with_nan THEN [closes EXCEPT ![1] = NaN] ELSE closes)} :
                /\ args' = [bars |-> n]
                /\ price_data' = pd
                /\ ret' = analyze_with_mean_reversion(pd)
    /\ op' = "analyze_with_mean_reversion"
    /\ UNCHANGED <<strategies, locals>>
    /\ pc' = "done"
    /\ UNCHANGED <<workers, scanner, handler>>

\* one call of AdvancedTradingBot.analyze_with_breakout on the bars up to bar `at`
AnalyzeWithBreakout ==
    /\ pc = "idle"
    /\ \E spike \in SpikeBars, level \in SpikeLevels :
       \E at \in EvalBars(spike) :
       \E pd \in {spike_series(at, spike, level)} :
          /\ args' = [bars |-> at, spike |-> spike, level |-> level]
          /\ price_data' = pd
          /\ ret' = analyze_with_breakout(pd)
    /\ op' = "analyze_with_breakout"
    /\ UNCHANGED <<strategies, locals>>
    /\ pc' = "done"
    /\ UNCHANGED <<workers, scanner, handler>>

\* one call of AdvancedTradingBot.analyze_with_smc, with its calls of detect_fvg,
\* detect_order_blocks and detect_liquidity
AnalyzeWithSmc ==
    /\ pc = "idle"
    /\ \E pd \in PatternSeries :
          /\ args' = [bars |-> Len(pd)]
          /\ price_data' = pd
          /\ ret' = analyze_with_smc(pd)
    /\ op' = "analyze_with_smc"
    /\ UNCHANGED <<strategies, locals>>
    /\ pc' = "done"
    /\ UNCHANGED <<workers, scanner, handler>>

\* one call of TechnicalAnalyzer.identify_fvg
IdentifyFvg ==
    /\ pc = "idle"
    /\ \E df \in PatternSeries :
          /\ args' = [bars |-> Len(df)]
          /\ price_data' = df
          /\ ret' = [fvgs |-> identify_fvg(df)]
    /\ op' = "identify_fvg"
    /\ UNCHANGED <<strategies, locals>>
    /\ pc' = "done"
    /\ UNCHANGED <<workers, scanner, handler>>

\* one call of TechnicalAnalyzer.identify_order_blocks on a frame of calculate_indicators
IdentifyOrderBlocks ==
    /\ pc = "idle"
    /\ \E n \in FlatLengths, tail \in TailSeries :
       \E df \in {with_volume_sma(flat_bars(n) \o tail)} :
          /\ args' = [bars |-> Len(df)]
          /\ price_data' = df
          /\ ret' = [order_blocks |-> identify_order_blocks(df)]
    /\ op' = "identify_order_blocks"
    /\ UNCHANGED <<strategies, locals>>
    /\ pc' = "done"
    /\ UNCHANGED <<workers, scanner, handler>>

\* one call of TechnicalAnalyzer.identify_liquidity_sweeps, on no bars or on
\* flat bars at 100 followed by the latest bar
IdentifyLiquiditySweeps ==
    /\ pc = "idle"
    /\ \E n \in SweepLengths, last \in SweepBars, empty \in BOOLEAN :
          /\ empty => (n = 0 /\ last.high = last.low)
          /\ \E df \in {IF empty THEN <<>>
                        ELSE [i \in 1..n |-> Bar(Q(100, 1), Q(100, 1), Q(100, 1), Q(100, 1),
                                                 Q(TICK_VOLUME, 1))] \o <<last>>} :
                /\ args' = [bars |-> Len(df)]
                /\ price_data' = df
                /\ ret' = [sweeps |-> identify_liquidity_sweeps(df)]
    /\ op' = "identify_liquidity_sweeps"
    /\ UNCHANGED <<strategies, locals>>
    /\ pc' = "done"
    /\ UNCHANGED <<workers, scanner, handler>>

\* one call of TechnicalAnalyzer.get_signal_strength on a frame whose latest row
\* holds the drawn indicator values
GetSignalStrength ==
    /\ pc = "idle"
    /\ \E n \in {0, 1, SIGNAL_MIN_BARS - 1, SIGNAL_MIN_BARS}, current \in IndicatorRows, smc \in SmcFindings :
          /\ n < SIGNAL_MIN_BARS => (current = NeutralRow /\ smc = NoFindings)
          /\ args' = [bars |-> n, current |-> current, smc |-> smc]
          /\ price_data' = get_ohlc([i \in 1..n |-> current.close])
          /\ ret' = get_signal_strength(get_ohlc([i \in 1..n |-> current.close]), score_signal(current, smc))
    /\ op' = "get_signal_strength"
    /\ UNCHANGED <<strategies, locals>>
    /\ pc' = "done"
    /\ UNCHANGED <<workers, scanner, handler>>

DetectLiquidity ==
    /\ pc = "idle"
    /\ \E pd \in SwingSeries :
          /\ args' = [bars |-> Len(pd)]
          /\ price_data' = pd
          /\ ret' = [liquidity_levels |-> detect_liquidity(pd)]
    /\ op' = "detect_liquidity"
    /\ UNCHANGED <<strategies, locals>>
    /\ pc' = "done"
    /\ UNCHANGED <<workers, scanner, handler>>

\* one call of TechnicalAnalyzer.calculate_indicators; the ewm columns are
\* computed where the weights stay small
CalculateIndicators ==
    /\ pc = "idle"
    /\ \E closes \in IndicatorCloses :
          \E pd \in {get_ohlc(closes)} :
             /\ args' = [bars |-> Len(pd)]
             /\ price_data' = pd
             /\ ret' = calculate_indicators(pd, PyMinInt(Len(pd), MaxTrendBars))
    /\ op' = "calculate_indicators"
    /\ UNCHANGED <<strategies, locals>>
    /\ pc' = "done"
    /\ UNCHANGED <<workers, scanner, handler>>

\* one call of SignalGenerator.fetch_data with the configured bar count
FetchData ==
    /\ pc = "idle"
    /\ \E connects \in BOOLEAN, response \in ApiResponses :
          /\ args' = [connects |-> connects, response |-> response]
          /\ ret' = fetch_data(connects, response, BARS_COUNT)
    /\ op' = "fetch_data"
    /\ UNCHANGED <<price_data, strategies, locals>>
    /\ pc' = "done"
    /\ UNCHANGED <<workers, scanner, handler>>

\* an analysis cycle for instrument s receives its bars
StartCycle(s) ==
    /\ cycles[s].stage = "idle"
    /\ \E closes \in CycleCloses, m \in MacdPairs, stop \in CycleStops :
          cycles' = [cycles EXCEPT ![s] = [IdleCycle EXCEPT !.stage = "started", !.closes = closes,
                                                            !.macd = m, !.stop_loss = stop]]
    /\ UNCHANGED <<call, scanner, handler>>

\* the cycle runs its strategy evaluators
RunEvaluators(s) ==
    /\ cycles[s].stage = "started"
    /\ cycles' = [cycles EXCEPT ![s].stage = "evaluated",
                                ![s].strategies = run_evaluators(get_ohlc(cycles[s].closes),
                                                                 cycles[s].macd[1], cycles[s].macd[2])]
    /\ UNCHANGED <<call, scanner, handler>>

\* the cycle aggregates its votes
AggregateVotes(s) ==
    /\ cycles[s].stage = "evaluated"
    /\ cycles' = [cycles EXCEPT ![s].stage = "aggregated",
                                ![s].signal = calculate_weighted_signal(cycle_strategies(cycles, s))]
    /\ UNCHANGED <<call, scanner, handler>>

\* the cycle sizes its position
SizePosition(s) ==
    /\ cycles[s].stage = "aggregated"
    /\ cycles' = [cycles EXCEPT ![s].stage = "sized",
                                ![s].position_size =
                                    calculate_position_size(CYCLE_RISK, cycles[s].closes[Len(cycles[s].closes)],
                                                            cycles[s].stop_loss)]
    /\ UNCHANGED <<call, scanner, handler>>

\* the cycle returns its result
FinishCycle(s) ==
    /\ cycles[s].stage = "sized"
    /\ cycles' = [cycles EXCEPT ![s] = IdleCycle]
    /\ UNCHANGED <<call, scanner, handler>>

\* AutoScanner.perform_scan (also reached through force_scan): line 56 calls
\* the coroutine function scan_all_symbols without await
PerformScan ==
    /\ pc = "idle"
    /\ \E analysed \in Analyses(clock), delivered \in BOOLEAN :
         \E r \in {perform_scan(Coroutine(scan_all_symbols(analysed)), ScannerState, clock, delivered)} :
            /\ pc' = "done"
            /\ op' = "perform_scan"
            /\ args' = [found |-> scan_all_symbols(analysed)]
            /\ locals' = [passed |-> r.passed, raised |-> r.raised, skipped |-> r.skipped]
            /\ ret' = None
            /\ broadcasted_signals' = r.broadcasted_signals
            /\ channel' = r.channel
            /\ last_scan_time' = r.last_scan_time
    /\ UNCHANGED <<price_data, strategies, clock, workers, handler>>

\* AutoScanner.broadcast_signals on a dict of very strong signals
BroadcastSignals ==
    /\ pc = "idle"
    /\ \E signals \in VeryStrongDicts(clock), delivered \in BOOLEAN :
         \E r \in {broadcast_signals(signals, ScannerState, delivered)} :
            /\ pc' = "done"
            /\ op' = "broadcast_signals"
            /\ args' = [signals |-> signals]
            /\ locals' = [passed |-> r.passed, raised |-> r.raised, skipped |-> r.skipped]
            /\ ret' = None
            /\ broadcasted_signals' = r.broadcasted_signals
            /\ channel' = r.channel
    /\ UNCHANGED <<price_data, strategies, clock, last_scan_time, workers, handler>>

\* AutoScanner.cleanup_broadcasted_signals (also run by the maintenance loop)
CleanupBroadcastedSignals ==
    /\ pc = "idle"
    /\ pc' = "done"
    /\ op' = "cleanup_broadcasted_signals"
    /\ args' = [current_time |-> clock]
    /\ locals' = None
    /\ ret' = None
    /\ broadcasted_signals' = cleanup_broadcasted_signals(broadcasted_signals, clock)
    /\ UNCHANGED <<price_data, strategies, clock, channel, last_scan_time, workers, handler>>

\* time passes between two calls: the clock moves to the next instant
Tick ==
    /\ pc = "idle"
    /\ \E t \in Instants :
         /\ t > clock
         /\ \A u \in Instants : u > clock => t <= u
         /\ clock' = t
    /\ UNCHANGED <<call, broadcasted_signals, channel, last_scan_time, workers, handler>>

\* TelegramBotHandler.execute_buy
ExecuteBuy ==
    /\ pc = "idle"
    /\ \E user_id \in UserIds, symbol \in ButtonSymbols, signal \in ClickSignals,
          reply_raises \in BOOLEAN :
         \E r \in {execute_buy(user_positions, user_id, symbol, signal, clock, reply_raises)} :
            /\ pc' = "done"
            /\ op' = "execute_buy"
            /\ args' = [user_id |-> user_id, symbol |-> symbol, signal |-> signal,
                        positions |-> user_positions]
            /\ locals' = [outcome |-> r.outcome]
            /\ ret' = None
            /\ user_positions' = r.user_positions
    /\ UNCHANGED <<price_data, strategies, workers, scanner>>

\* TelegramBotHandler.execute_sell
ExecuteSell ==
    /\ pc = "idle"
    /\ \E user_id \in UserIds, symbol \in ButtonSymbols, signal \in ClickSignals,
          reply_raises \in BOOLEAN :
         \E r \in {execute_sell(user_positions, user_id, symbol, signal, clock, reply_raises)} :
            /\ pc' = "done"
            /\ op' = "execute_sell"
            /\ args' = [user_id |-> user_id, symbol |-> symbol, signal |-> signal,
                        positions |-> user_positions]
            /\ locals' = [outcome |-> r.outcome]
            /\ ret' = None
            /\ user_positions' = r.user_positions
    /\ UNCHANGED <<price_data, strategies, workers, scanner>>

\* TelegramBotHandler.execute_close
ExecuteClose ==
    /\ pc = "idle"
    /\ \E user_id \in UserIds, symbol \in ButtonSymbols, response \in TickResponses,
          reply_raises \in BOOLEAN :
         \E r \in {execute_close(user_positions, user_id, symbol, get_live_price(response),
                                 clock, reply_raises)} :
            /\ pc' = "done"
            /\ op' = "execute_close"
            /\ args' = [user_id |-> user_id, symbol |-> symbol,
                        current_price |-> get_live_price(response),
                        positions |-> user_positions]
            /\ locals' = [outcome |-> r.outcome]
            /\ ret' = None
            /\ user_positions' = r.user_positions
    /\ UNCHANGED <<price_data, strategies, workers, scanner>>

\* the caller takes the result; the objects keep no state between calls
Return ==
    /\ pc = "done"
    /\ pc' = "idle"
    /\ op' = "none"
    /\ args' = None
    /\ price_data' = <<>>
    /\ strategies' = <<>>
    /\ locals' = None
    /\ ret' = None
    /\ UNCHANGED <<workers, scanner, handler>>

Next ==
    \/ GenerateSignal
    \/ CalculateWeightedSignal
    \/ AnalyzeSymbol
    \/ CalculatePositionSize
    \/ AnalyzeWithTrend
    \/ AnalyzeWithMomentum
    \/ AnalyzeWithMeanReversion
    \/ AnalyzeWithBreakout
    \/ AnalyzeWithSmc
    \/ IdentifyFvg
    \/ IdentifyOrderBlocks
    \/ IdentifyLiquiditySweeps
    \/ GetSignalStrength
    \/ DetectLiquidity
    \/ CalculateIndicators
    \/ FetchData
    \/ Return

Spec == Init /\ [][Next]_vars

\* cycles for several instruments, their steps interleaved in any order
CycleNext ==
    \/ \E s \in CycleSymbols : StartCycle(s)
    \/ \E s \in CycleSymbols : RunEvaluators(s)
    \/ \E s \in CycleSymbols : AggregateVotes(s)
    \/ \E s \in CycleSymbols : SizePosition(s)
    \/ \E s \in CycleSymbols : FinishCycle(s)

CycleSpec == Init /\ [][CycleNext]_vars

\* the scanner: scans, broadcasts and cleanups one after the other as time passes
ScannerNext ==
    \/ PerformScan
    \/ BroadcastSignals
    \/ CleanupBroadcastedSignals
    \/ Tick
    \/ Return

ScannerSpec == Init /\ [][ScannerNext]_vars

\* the trade buttons: clicks of the users handled one after the other
PositionsNext ==
    \/ ExecuteBuy
    \/ ExecuteSell
    \/ ExecuteClose
    \/ Return

PositionsSpec == Init /\ [][PositionsNext]_vars

-----------------------------------------------------------------------------
(* Properties of the aggregation *)

CwsDone == pc = "done" /\ op = "calculate_weighted_signal"
GenDone == pc = "done" /\ op = "generate_signal"
SgDone == pc = "done" /\ op = "analyze_symbol"
SizeDone == pc = "done" /\ op = "calculate_position_size"

\* two votes of equal weight and equal strength on opposite sides, every other
\* vote NEUTRAL
OppositePair(strats) ==
    \E i, j \in DOMAIN strats :
        /\ i # j
        /\ strats[i].direction = "BULLISH"
        /\ strats[j].direction = "BEARISH"
        /\ strats[i].strength = strats[j].strength
        /\ vote_weight(strats[i]) = vote_weight(strats[j])
        /\ \A k \in DOMAIN strats \ {i, j} : strats[k].direction = "NEUTRAL"

slot_weight(i) == strategy_weights[Lower(SlotNames[i])]

RECURSIVE slot_score(_, _, _)
slot_score(strats, direction, i) ==
    IF i = 0 THEN Zero
    ELSE LET rest == slot_score(strats, direction, i - 1)
         IN IF strats[i].direction = direction
            THEN QAdd(rest, QMul(strats[i].strength, slot_weight(i)))
            ELSE rest

RECURSIVE slot_weights_sum(_)
slot_weights_sum(i) == IF i = 0 THEN Zero ELSE QAdd(slot_weights_sum(i - 1), slot_weight(i))

\* 10 * min(1, winning_score / sum of the table weights)
table_strength(strats) ==
    LET bull == slot_score(strats, "BULLISH", Len(strats))
        bear == slot_score(strats, "BEARISH", Len(strats))
    IN IF bull = bear THEN Zero
       ELSE QMul(Q(10, 1), PyMin(One, QDiv(PyMax(bull, bear), slot_weights_sum(Len(strats)))))

\* C2: for the six votes generate_signal builds, each vote counts with the table
\* weight of its own evaluator (0.35, 0.20, 0.15, 0.15, 0.10, 0.05, summing to 1),
\* and the strength of the returned signal is 10 * min(1, winning_score / sum of
\* the weights), a value in [0, 10].
C2_StrengthFromTableWeights ==
    (GenDone /\ ~IsNone(ret)) =>
        /\ slot_weights_sum(Len(SlotNames)) = One
        /\ ret.strength = table_strength(strategies)
        /\ QLe(Zero, ret.strength) /\ QLe(ret.strength, Q(10, 1))

\* a vote that carries every key the aggregator reads
well_formed(v) == VoteKeys \subseteq DOMAIN v

\* the direction the well-formed votes of strats decide
remaining_direction(strats) ==
    LET rest == SelectSeq(strats, well_formed)
    IN final_direction(weighted_score(rest, "BULLISH", Len(rest)),
                       weighted_score(rest, "BEARISH", Len(rest)))

CompleteResult(r) ==
    {"direction", "strength", "entry_price", "stop_loss", "take_profit"} \subseteq DOMAIN r

\* C3: when one of the votes handed to the aggregator is malformed (it lacks
\* 'strategy', 'strength', 'direction' or 'entry'), only that vote counts as
\* NEUTRAL: the result is complete (direction, strength, entry, stop-loss,
\* take-profit) and its direction is the one the remaining votes decide.
C3_MalformedVoteIsolated ==
    ((CwsDone \/ (GenDone /\ ~IsNone(ret)))
        /\ \E i \in DOMAIN strategies : ~well_formed(strategies[i])) =>
        /\ CompleteResult(ret)
        /\ ret.direction = remaining_direction(strategies)

\* C4: when the enrichment is unavailable (get_fallback_signal is used), the
\* enrichment vote is NEUTRAL with strength 0, the returned signal has the
\* direction the other five evaluators decide, and its metadata marks it as not
\* enriched.
C4_FallbackCycle ==
    (GenDone /\ ~IsNone(ret) /\ ~args.ai.ok) =>
        /\ strategies[1].direction = "NEUTRAL"
        /\ strategies[1].strength = Zero
        /\ ret.direction = remaining_direction(Tail(strategies))
        /\ ret.ai_enhanced = FALSE

-----------------------------------------------------------------------------
(* Properties of the risk levels *)

\* an aggregated signal with its levels
CwsLevels == CwsDone /\ ~locals.raised

\* a signal returned by analyze_symbol
SgSignal == SgDone /\ ~IsNone(ret)

Between(lo, x, hi) == QLt(lo, x) /\ QLt(x, hi)

\* C5: a BULLISH signal with ATR > 0 has stop_loss = price - 1.5 * ATR and
\* take_profit = price + 2.0 * ATR (2.5 * ATR in analyze_symbol), hence
\* stop_loss < price < take_profit; a BEARISH signal has the mirrored levels, hence
\* take_profit < price < stop_loss.
C5_DirectionalLevels ==
    /\ (CwsLevels /\ QLt(Zero, locals.atr)) =>
          LET price == locals.current_price
              risk == QMul(locals.atr, Q(3, 2))
              reward == QMul(locals.atr, Q(2, 1))
          IN /\ ret.direction = "BULLISH" =>
                   /\ ret.stop_loss = QSub(price, risk)
                   /\ ret.take_profit = QAdd(price, reward)
                   /\ Between(ret.stop_loss, price, ret.take_profit)
             /\ ret.direction = "BEARISH" =>
                   /\ ret.stop_loss = QAdd(price, risk)
                   /\ ret.take_profit = QSub(price, reward)
                   /\ Between(ret.take_profit, price, ret.stop_loss)
    /\ (SgSignal /\ QLt(Zero, locals.atr)) =>
          LET price == locals.current_price
              risk == QMul(locals.atr, Q(3, 2))
              reward == QMul(locals.atr, Q(5, 2))
          IN /\ ret.direction = "bullish" =>
                   /\ ret.stop_loss = QSub(price, risk)
                   /\ ret.take_profit = QAdd(price, reward)
                   /\ Between(ret.stop_loss, price, ret.take_profit)
             /\ ret.direction = "bearish" =>
                   /\ ret.stop_loss = QAdd(price, risk)
                   /\ ret.take_profit = QSub(price, reward)
                   /\ Between(ret.take_profit, price, ret.stop_loss)

\* C6: a NEUTRAL signal has stop_loss = take_profit = current price, in
\* calculate_weighted_signal and in analyze_symbol.
C6_NeutralLevelsFlat ==
    /\ (CwsLevels /\ ret.direction = "NEUTRAL") =>
          (ret.stop_loss = locals.current_price /\ ret.take_profit = locals.current_price)
    /\ (SgSignal /\ ret.direction = "neutral") =>
          (ret.stop_loss = ret.current_price /\ ret.take_profit = ret.current_price)

\* C7: when stop_loss equals the entry/current price the reported risk/reward is 0
\* and the computation neither fails nor yields infinity or NaN, in
\* calculate_weighted_signal and in analyze_symbol; otherwise the ratio is
\* |take_profit - price| / |stop_loss - price| (to two decimals in analyze_symbol).
C7_RiskRewardGuarded ==
    /\ CwsLevels =>
          /\ IsFinite(ret.risk_reward)
          /\ ret.risk_reward =
                IF ret.stop_loss = ret.entry_price THEN Zero
                ELSE QDiv(QAbs(QSub(ret.take_profit, ret.entry_price)),
                          QAbs(QSub(ret.stop_loss, ret.entry_price)))
    /\ (SgDone /\ ~IsNone(locals)) =>
          /\ ~locals.raised
          /\ ~IsNone(ret)
          /\ IsFinite(ret.risk_reward_ratio)
          /\ ret.risk_reward_ratio =
                IF ret.stop_loss = ret.entry_price THEN Zero
                ELSE Round2(QDiv(QAbs(QSub(ret.take_profit, ret.entry_price)),
                                 QAbs(QSub(ret.stop_loss, ret.entry_price))))

\* clamp(x, lo, hi)
Clamp(x, lo, hi) == IF QLt(x, lo) THEN lo ELSE IF QLt(hi, x) THEN hi ELSE x

\* C8: calculate_position_size returns clamp(risk_amount / |entry - stop_loss|,
\* 0.01, 0.1) for every input: the result is a finite number in [0.01, 0.1], and it
\* is exactly 0.01 when entry = stop_loss; the size analyze_symbol reports is in the
\* same range.
C8_PositionSizeClamped ==
    /\ SizeDone =>
          LET size == ret.position_size
              risk_per_unit == QAbs(QSub(args.entry_price, args.stop_loss))
          IN /\ IsFinite(size)
             /\ QLe(Q(1, 100), size) /\ QLe(size, Q(1, 10))
             /\ args.entry_price = args.stop_loss => size = Q(1, 100)
             /\ (IsFinite(args.risk_amount) /\ IsFinite(risk_per_unit) /\ risk_per_unit # Zero) =>
                   size = Clamp(QDiv(args.risk_amount, risk_per_unit), Q(1, 100), Q(1, 10))
    /\ SgSignal =>
          (QLe(Q(1, 100), ret.position_size) /\ QLe(ret.position_size, Q(1, 10)))

\* C8 witness: a call with a non-zero risk amount and entry = stop_loss returned 0.01
C8_DegenerateSized ==
    /\ SizeDone
    /\ IsFinite(args.entry_price)
    /\ args.entry_price = args.stop_loss
    /\ args.risk_amount # Zero
    /\ ret.position_size = Q(1, 100)

\* C9: every returned BULLISH or BEARISH signal reports a reward-to-risk ratio
\* |take_profit - entry| / |stop_loss - entry| of at least 1.3, for every price,
\* spread and ATR > 0.
C9_MinimumRewardToRisk ==
    /\ (CwsLevels /\ ret.direction # "NEUTRAL" /\ QLt(Zero, locals.atr)) =>
          QLe(Q(13, 10), ret.risk_reward)
    /\ (SgSignal /\ ret.direction # "neutral" /\ QLt(Zero, locals.atr)) =>
          QLe(Q(13, 10), ret.risk_reward_ratio)

\* the ATR of a series of at least 14 bars, where it is defined
series_atr(pd) == IF Len(pd) >= ATR_MIN_BARS THEN rolling_atr_last(pd, ATR_WINDOW) ELSE NaN

\* C10: the ATR behind stop_loss and take_profit is the ATR of the analysed series
\* whenever the series has at least 14 bars and the value is defined; the default
\* (50.0 in calculate_atr, 1% of the current price in analyze_symbol) is used only
\* when the ATR is undefined, and stop_loss and take_profit are never NaN.
C10_AtrOfAnalysedSeries ==
    /\ CwsLevels =>
          /\ locals.atr = IF IsNaN(series_atr(price_data)) THEN Q(DEFAULT_ATR, 1)
                          ELSE series_atr(price_data)
          /\ ~IsNaN(ret.stop_loss) /\ ~IsNaN(ret.take_profit)
    /\ SgSignal =>
          /\ locals.atr = IF IsNaN(series_atr(price_data)) THEN QMul(locals.current_price, Q(1, 100))
                          ELSE series_atr(price_data)
          /\ ~IsNaN(ret.stop_loss) /\ ~IsNaN(ret.take_profit)

-----------------------------------------------------------------------------
(* Properties of the strategy evaluators *)

TrendDone == pc = "done" /\ op = "analyze_with_trend"

\* the vote has the direction and the strength
Votes(r, direction, strength) == r.direction = direction /\ r.strength = strength

\* a > b > c as Python chains it
Stacked(a, b, c) == QLess(b, a) /\ QLess(c, b)

\* C12, as amended: with the close and the EMAs of spans 20, 50 and 200 of the
\* returned dict, the trend evaluator votes 0.9 BULLISH when
\* close > ema_20 > ema_50 > ema_200 and 0.9 BEARISH when the chain is reversed;
\* failing both it votes 0.6 BULLISH when close > ema_20 > ema_50 and 0.6 BEARISH
\* when close < ema_20 < ema_50; otherwise NEUTRAL 0.  The strength is one of
\* 0, 0.6, 0.9 and is 0 exactly when the direction is NEUTRAL.
C12_TrendStacking ==
    (TrendDone /\ "entry" \in DOMAIN ret) =>
        LET up == Stacked(ret.entry, ret.ema_20, ret.ema_50)
            down == Stacked(ret.ema_50, ret.ema_20, ret.entry)
            full_up == up /\ QLess(ret.ema_200, ret.ema_50)
            full_down == down /\ QLess(ret.ema_50, ret.ema_200)
        IN /\ full_up => Votes(ret, "BULLISH", Q(9, 10))
           /\ full_down => Votes(ret, "BEARISH", Q(9, 10))
           /\ (up /\ ~full_up) => Votes(ret, "BULLISH", Q(6, 10))
           /\ (down /\ ~full_down) => Votes(ret, "BEARISH", Q(6, 10))
           /\ (~up /\ ~down) => Votes(ret, "NEUTRAL", Zero)
           /\ ret.strength \in {Zero, Q(6, 10), Q(9, 10)}
           /\ ret.strength = Zero <=> ret.direction = "NEUTRAL"

\* C12, witness: a close above ema_20 above ema_50, with ema_200 not below
\* ema_50, was voted BULLISH at 0.6
C12_WeakUptrendVoted ==
    /\ TrendDone
    /\ "entry" \in DOMAIN ret
    /\ Stacked(ret.entry, ret.ema_20, ret.ema_50)
    /\ ~QLess(ret.ema_200, ret.ema_50)
    /\ Votes(ret, "BULLISH", Q(6, 10))

\* C12, as stated: whenever close > ema_fast > ema_slow (spans 20 and 50) the
\* vote is BULLISH at 0.9, and whenever close < ema_fast < ema_slow it is
\* BEARISH at 0.9
C12_TwoEmaStackingIsStrong ==
    (TrendDone /\ "entry" \in DOMAIN ret) =>
        /\ Stacked(ret.entry, ret.ema_20, ret.ema_50) => Votes(ret, "BULLISH", Q(9, 10))
        /\ Stacked(ret.ema_50, ret.ema_20, ret.entry) => Votes(ret, "BEARISH", Q(9, 10))

MomentumDone == pc = "done" /\ op = "analyze_with_momentum"

\* C13: the momentum evaluator votes BULLISH exactly when 50 < RSI < 70 and the
\* MACD is above its signal line, BEARISH exactly when 30 < RSI < 50 and the MACD
\* is below it, both at 0.8; in every other case, a NaN RSI or MACD included,
\* the vote is NEUTRAL at 0
C13_MomentumVote ==
    MomentumDone =>
        IF "entry" \notin DOMAIN ret THEN Votes(ret, "NEUTRAL", Zero)
        ELSE LET bull == /\ QLt(Q(50, 1), ret.rsi) /\ QLt(ret.rsi, Q(70, 1))
                         /\ QLt(ret.signal, ret.macd)
                 bear == /\ QLt(Q(30, 1), ret.rsi) /\ QLt(ret.rsi, Q(50, 1))
                         /\ QLt(ret.macd, ret.signal)
             IN /\ ret.direction = "BULLISH" <=> bull
                /\ ret.direction = "BEARISH" <=> bear
                /\ ret.direction \in {"BULLISH", "BEARISH"} => ret.strength = Q(8, 10)
                /\ (~bull /\ ~bear) => Votes(ret, "NEUTRAL", Zero)
                /\ (IsNaN(ret.rsi) \/ IsNaN(ret.macd) \/ IsNaN(ret.signal)) => Votes(ret, "NEUTRAL", Zero)

\* C13, witness: three rises and two falls in the window give an RSI of 60, and
\* with the MACD above its signal line the vote was BULLISH at 0.8
C13_BullishMomentumVoted ==
    /\ MomentumDone
    /\ "entry" \in DOMAIN ret
    /\ ret.rsi = Q(60, 1)
    /\ QLt(ret.signal, ret.macd)
    /\ Votes(ret, "BULLISH", Q(8, 10))

MeanReversionDone == pc = "done" /\ op = "analyze_with_mean_reversion"

\* C14, as amended: the mean-reversion evaluator votes BULLISH 0.7 when the
\* close is at or below the lower Bollinger band; BEARISH 0.7 when the close is
\* at or above the upper band and not at or below the lower one; NEUTRAL 0 when
\* the close is strictly inside the bands or the bands are undefined.  On a
\* window of equal closes both bands are the close and the vote is BULLISH.
C14_BandVote ==
    MeanReversionDone =>
        IF "entry" \notin DOMAIN ret THEN Votes(ret, "NEUTRAL", Zero)
        ELSE LET low == AtOrBelow(ret.entry, ret.lower_band)
                 high == AtOrAbove(ret.entry, ret.upper_band)
             IN /\ low => Votes(ret, "BULLISH", Q(7, 10))
                /\ (high /\ ~low) => Votes(ret, "BEARISH", Q(7, 10))
                /\ (~low /\ ~high) => Votes(ret, "NEUTRAL", Zero)
                /\ IsNaN(ret.lower_band.width_sq) => Votes(ret, "NEUTRAL", Zero)

\* C14, witness: a window of equal closes, where the close is at both bands,
\* was voted BULLISH at 0.7
C14_CollapsedBandsVoted ==
    /\ MeanReversionDone
    /\ "entry" \in DOMAIN ret
    /\ ret.lower_band.width_sq = Zero
    /\ AtOrBelow(ret.entry, ret.lower_band)
    /\ AtOrAbove(ret.entry, ret.upper_band)
    /\ Votes(ret, "BULLISH", Q(7, 10))

\* C14, as stated: a close at or below the lower band is voted BULLISH 0.7 and
\* a close at or above the upper band is voted BEARISH 0.7
C14_EachBandVotesItsSide ==
    (MeanReversionDone /\ "entry" \in DOMAIN ret) =>
        /\ AtOrBelow(ret.entry, ret.lower_band) => Votes(ret, "BULLISH", Q(7, 10))
        /\ AtOrAbove(ret.entry, ret.upper_band) => Votes(ret, "BEARISH", Q(7, 10))

BreakoutDone == pc = "done" /\ op = "analyze_with_breakout"

\* C15: on the flat series at 100 with one high-volume bar that closes at 130,
\* the breakout evaluator votes BULLISH 0.8 when it is evaluated at the spike bar
\* (20 bars or more into the series) and NEUTRAL 0 at any other bar
C15_SpikeBarBreaksOut ==
    (BreakoutDone /\ args.level = Q(130, 1) /\ args.bars >= BREAKOUT_WINDOW) =>
        IF args.bars = args.spike THEN Votes(ret, "BULLISH", Q(8, 10))
        ELSE Votes(ret, "NEUTRAL", Zero)

SmcDone == pc = "done" /\ op = "analyze_with_smc"

\* C16: the SMC evaluator votes 0.8 in a direction exactly when the detected
\* order blocks of that direction include one that the close has moved past
\* (above a bullish block, below a bearish one) and at least one fair-value gap
\* of that direction was detected; otherwise the vote is NEUTRAL 0
C16_SmcVotesExactlyOnSetup ==
    (SmcDone /\ "entry" \in DOMAIN ret) =>
        LET bull == /\ \E k \in DOMAIN ret.order_blocks.bullish :
                           QLt(ret.order_blocks.bullish[k], ret.entry)
                    /\ ret.fvg_zones.bullish # <<>>
            bear == /\ \E k \in DOMAIN ret.order_blocks.bearish :
                           QLt(ret.entry, ret.order_blocks.bearish[k])
                    /\ ret.fvg_zones.bearish # <<>>
        IN /\ Votes(ret, "BULLISH", Q(8, 10)) <=> bull
           /\ Votes(ret, "BEARISH", Q(8, 10)) <=> bear
           /\ Votes(ret, "NEUTRAL", Zero) <=> (~bull /\ ~bear)

-----------------------------------------------------------------------------
(* Properties of the pattern detectors *)

IdentifyFvgDone == pc = "done" /\ op = "identify_fvg"

\* the bars i of a series at which a three-bar gap can end
GapBars(pd) == {i \in 1..Len(pd) : i >= 3}

\* bar i ends a bullish (bearish) fair-value gap of the series as the
\* specification defines it
BullishGapAt(pd, i) == QLt(pd[i - 2].high, pd[i].low) /\ Rising(pd[i - 1])
BearishGapAt(pd, i) == QLt(pd[i].high, pd[i - 2].low) /\ Falling(pd[i - 1])

\* the gaps satisfy the definition: one gap at every bar that ends one, with
\* bottom = high[i-2] and top = low[i] (bearish: bottom = high[i], top = low[i-2]),
\* and top > bottom for every gap
GapsAsDefined(pd, bullish, bearish) ==
    /\ \A i \in GapBars(pd) :
          /\ BullishGapAt(pd, i) =>
                \E k \in DOMAIN bullish :
                   /\ bullish[k].time = i
                   /\ bullish[k].bottom = pd[i - 2].high
                   /\ bullish[k].top = pd[i].low
          /\ BearishGapAt(pd, i) =>
                \E k \in DOMAIN bearish :
                   /\ bearish[k].time = i
                   /\ bearish[k].bottom = pd[i].high
                   /\ bearish[k].top = pd[i - 2].low
    /\ \A k \in DOMAIN bullish : QLt(bullish[k].bottom, bullish[k].top)
    /\ \A k \in DOMAIN bearish : QLt(bearish[k].bottom, bearish[k].top)
    /\ pd = fvg_fixture =>
          /\ Len(bullish) = 1
          /\ bullish[1].bottom = Q(10, 1)
          /\ bullish[1].top = Q(11, 1)
          /\ bearish = <<>>

OfType(fvgs, type) == SelectSeq(fvgs, LAMBDA g : g.type = type)

\* C17: for every bar i >= 2 both detectors report a bullish fair-value gap
\* when high[i-2] < low[i] and bar i-1 closes above its open, with
\* bottom = high[i-2] and top = low[i], and symmetrically a bearish one, so that
\* top > bottom for every gap; on the five-bar fixture they report exactly one
\* bullish gap, bottom 10 and top 11
C17_GapsReportedAsDefined ==
    /\ (SmcDone /\ "entry" \in DOMAIN ret) =>
          GapsAsDefined(price_data, ret.fvg_zones.bullish, ret.fvg_zones.bearish)
    /\ IdentifyFvgDone =>
          GapsAsDefined(price_data, OfType(ret.fvgs, "bullish"), OfType(ret.fvgs, "bearish"))

\* the number of gaps whose 'time' is bar i
GapsAt(gaps, i) == Cardinality({k \in DOMAIN gaps : gaps[k].time = i})

\* the gaps are in the order of their bars
InBarOrder(gaps) == \A j, k \in DOMAIN gaps : j < k => gaps[j].time < gaps[k].time

IdentifyOrderBlocksDone == pc = "done" /\ op = "identify_order_blocks"

\* the volume of bar i over the mean volume of the 20 bars up to bar i
VolumeRatio(pd, i) ==
    QDiv(pd[i].volume, rolling_mean_last(SubSeq(Column(pd, "volume"), 1, i), VOLUME_SMA_WINDOW))

\* bar j is an order block as the specification defines it: the next bar has
\* the other direction and its volume ratio is above 1.5
BlockExpected(pd, j) ==
    /\ j + 1 <= Len(pd)
    /\ (Rising(pd[j]) /\ Falling(pd[j + 1])) \/ (Falling(pd[j]) /\ Rising(pd[j + 1]))
    /\ QLt(VOLUME_FACTOR, VolumeRatio(pd, j + 1))

\* C19: a bar is reported as an order block exactly when the next bar reverses
\* direction relative to it on a volume above 1.5 times its 20-bar average; the
\* block carries the high and low of that bar and, as strength, the volume
\* ratio of the next bar, which is above 1.5
C19_BlockIffLoudReversal ==
    /\ IdentifyOrderBlocksDone =>
          /\ \A j \in OB_LOOKBACK..Len(price_data) :
                (\E k \in DOMAIN ret.order_blocks : ret.order_blocks[k].index = j)
                    <=> BlockExpected(price_data, j)
          /\ \A k \in DOMAIN ret.order_blocks :
                LET b == ret.order_blocks[k]
                IN /\ b.high = price_data[b.index].high
                   /\ b.low = price_data[b.index].low
                   /\ b.strength = VolumeRatio(price_data, b.index + 1)
                   /\ QLt(VOLUME_FACTOR, b.strength)
    /\ (SmcDone /\ "entry" \in DOMAIN ret) =>
          Len(ret.order_blocks.bullish) + Len(ret.order_blocks.bearish)
              = Cardinality({j \in 1..Len(price_data) : BlockExpected(price_data, j)})

SweepsDone == pc = "done" /\ op = "identify_liquidity_sweeps"

\* the highest high and the lowest low of the `lookback` bars before the latest bar
PrecedingHigh(pd, lookback) == SeqMax(Column(pd, "high"), Len(pd) - lookback, Len(pd) - 1)
PrecedingLow(pd, lookback) ==
    QNeg(SeqMax([i \in 1..Len(pd) |-> QNeg(pd[i].low)], Len(pd) - lookback, Len(pd) - 1))

\* C20: when the high of the latest bar is above the highest high of the 20
\* bars before it and the bar closes below that level by the 0.5% margin, a
\* high sweep of that level is reported, and mirrored for a low sweep; with
\* these conditions the returned list is not empty
C20_SweepReported ==
    (SweepsDone /\ Len(price_data) > SWEEP_LOOKBACK) =>
        LET last == price_data[Len(price_data)]
            level_high == PrecedingHigh(price_data, SWEEP_LOOKBACK)
            level_low == PrecedingLow(price_data, SWEEP_LOOKBACK)
        IN /\ (QLt(level_high, last.high) /\ QLt(last.close, QMul(level_high, SWEEP_PULLBACK))) =>
                 \E k \in DOMAIN ret.sweeps :
                    ret.sweeps[k].type = "high_sweep" /\ ret.sweeps[k].level = level_high
           /\ (QLt(last.low, level_low) /\ QLt(QMul(level_low, SWEEP_BOUNCE), last.close)) =>
                 \E k \in DOMAIN ret.sweeps :
                    ret.sweeps[k].type = "low_sweep" /\ ret.sweeps[k].level = level_low

-----------------------------------------------------------------------------
(* Short series *)

SMC_MIN_BARS == 3

\* the evaluator of the call just made has fewer bars than `window`
ShortFor(name, window) == pc = "done" /\ op = name /\ args.bars < window

\* the five evaluators other than the trend evaluator, and get_signal_strength,
\* answer NEUTRAL 0 below their windows
C11_OthersNeutralWhenShort ==
    /\ ShortFor("analyze_with_momentum", RSI_WINDOW) => Votes(ret, "NEUTRAL", Zero)
    /\ ShortFor("analyze_with_mean_reversion", BB_WINDOW) => Votes(ret, "NEUTRAL", Zero)
    /\ ShortFor("analyze_with_breakout", BREAKOUT_WINDOW) => Votes(ret, "NEUTRAL", Zero)
    /\ ShortFor("analyze_with_smc", SMC_MIN_BARS) => Votes(ret, "NEUTRAL", Zero)
    /\ ShortFor("get_signal_strength", SIGNAL_MIN_BARS) => Votes(ret, "neutral", Zero)

\* C11: every strategy evaluator and get_signal_strength returns NEUTRAL with
\* strength 0, and a dict rather than an exception, whenever the series has
\* fewer bars than the evaluator's window: the empty series included and, for
\* the trend evaluator, fewer bars than its EMA spans
C11_NeutralWhenShort ==
    /\ C11_OthersNeutralWhenShort
    /\ ShortFor("analyze_with_trend", EMA_20) => Votes(ret, "NEUTRAL", Zero)

-----------------------------------------------------------------------------
(* detect_liquidity: swing points *)

DetectLiquidityDone == pc = "done" /\ op = "detect_liquidity"

Neighbours(i) == {i - 2, i - 1, i + 1, i + 2}

\* C21: a bar is reported as a swing high (swing low) only if its high (low)
\* is strictly above (below) that of the two bars before and the two bars
\* after it; so the first two and the last two bars are never reported, and
\* fewer than five bars give no swing point
C21_SwingPointsStandOut ==
    DetectLiquidityDone =>
        /\ \A n \in DOMAIN ret.liquidity_levels :
              LET lv == ret.liquidity_levels[n]
                  i == lv.time
              IN /\ i \in 3..(Len(price_data) - 2)
                 /\ lv.type \in {"resistance", "support"}
                 /\ lv.type = "resistance" =>
                       /\ lv.level = price_data[i].high
                       /\ \A k \in Neighbours(i) : QLt(price_data[k].high, price_data[i].high)
                 /\ lv.type = "support" =>
                       /\ lv.level = price_data[i].low
                       /\ \A k \in Neighbours(i) : QLt(price_data[i].low, price_data[k].low)
        /\ Len(price_data) < 5 => ret.liquidity_levels = <<>>

\* C21 witness: a swing high and a swing low are both reported in one series
C21_SwingHighAndLowReported ==
    /\ DetectLiquidityDone
    /\ \E n \in DOMAIN ret.liquidity_levels : ret.liquidity_levels[n].type = "resistance"
    /\ \E n \in DOMAIN ret.liquidity_levels : ret.liquidity_levels[n].type = "support"

-----------------------------------------------------------------------------
(* the evaluators on a series that rises by one unit per bar *)

RisesByOne(pd) ==
    /\ Len(pd) >= 2
    /\ \A i \in 1..Len(pd) : ~IsNaN(pd[i].close)
    /\ \A i \in 2..Len(pd) : pd[i].close = QAdd(pd[i - 1].close, One)

\* C22: on a series whose close rises by one per bar the trend evaluator
\* votes BULLISH with strength at least 0.6, and the momentum evaluator votes
\* BULLISH as soon as the 14-bar RSI window is filled
C22_RisingSeriesVotedBullish ==
    /\ (TrendDone /\ RisesByOne(price_data)) =>
          (ret.direction = "BULLISH" /\ QLe(Q(6, 10), ret.strength))
    /\ (MomentumDone /\ RisesByOne(price_data) /\ Len(price_data) >= RSI_WINDOW) =>
          ret.direction = "BULLISH"

-----------------------------------------------------------------------------
(* the indicator columns of a flat series, and the RSI without losses *)

IndicatorsDone == pc = "done" /\ op = "calculate_indicators"

ConstantClose(pd) ==
    /\ Len(pd) >= 1
    /\ IsFinite(pd[1].close)
    /\ \A i \in 1..Len(pd) : pd[i].close = pd[1].close

AverageLoss(pd, i, window) ==
    rolling_mean_last(Prefix(momentum_losses(Closes(pd)), i), window)

\* C24: where the average loss over the RSI window is exactly zero the RSI is
\* undefined (NaN), whether the average gain is zero or positive, in the
\* indicator column and in the momentum evaluator
C24_RsiUndefinedWithoutLosses ==
    /\ IndicatorsDone =>
          \A i \in 1..Len(price_data) :
             AverageLoss(price_data, i, RSI_PERIOD) = Zero => IsNaN(ret.rsi[i])
    /\ (MomentumDone /\ "rsi" \in DOMAIN ret) =>
          (AverageLoss(price_data, Len(price_data), RSI_WINDOW) = Zero => IsNaN(ret.rsi))

-----------------------------------------------------------------------------
(* Interleaved analysis cycles *)

Reached(c, stages) == c.stage \in stages

CycleInputs(c) == <<c.closes, c.macd, c.stop_loss>>

-----------------------------------------------------------------------------
(* Live data only *)

FetchDataDone == pc = "done" /\ op = "fetch_data"

\* the bars made of prices the API sent with the reply
ReceivedBars(response) ==
    IF response.kind = "history" THEN {get_ohlc(LastN(response.prices, BARS_COUNT))}
    ELSE IF response.kind = "tick" /\ "quote" \in DOMAIN response THEN {get_ohlc(<<response.quote>>)}
    ELSE {}

\* C26: fetch_data returns None or bars made of prices received from the API,
\* never made-up bars; and analyze_symbol returns a signal only when the bars
\* were fetched and a live tick was received, with is_simulated False
C26_OnlyLiveBars ==
    /\ FetchDataDone => (IsNone(ret) \/ ret.df \in ReceivedBars(args.response))
    /\ (pc = "done" /\ op = "analyze_symbol" /\ ~IsNone(ret)) =>
          (args.fetched /\ args.ticked /\ ret.is_simulated = FALSE)

-----------------------------------------------------------------------------
(* get_signal_strength: strength and direction *)

SignalStrengthDone == pc = "done" /\ op = "get_signal_strength"

\* C27: on a frame of at least 50 bars the strength lies in [0, 10]; the
\* direction is bullish whenever the strength is above 6 and neutral whenever
\* it is below 4; bearish is returned only with a strength from 4 to 5 and a
\* raw score of at most 0, so it stays below the scan threshold of 7
C27_StrengthAndDirection ==
    (SignalStrengthDone /\ Len(price_data) >= SIGNAL_MIN_BARS) =>
        /\ QLe(Zero, ret.strength) /\ QLe(ret.strength, Q(10, 1))
        /\ QLt(Q(6, 1), ret.strength) => ret.direction = "bullish"
        /\ QLt(ret.strength, Q(4, 1)) => ret.direction = "neutral"
        /\ ret.direction = "bearish" =>
              /\ QLe(Q(4, 1), ret.strength) /\ QLe(ret.strength, Q(5, 1))
              /\ ret.raw_score <= 0
              /\ QLt(ret.strength, Q(SIGNAL_STRENGTH_THRESHOLD, 1))

\* C27 witness: a raw score of -5 or less is reported as neutral
C27_StronglyNegativeIsNeutral ==
    /\ SignalStrengthDone /\ Len(price_data) >= SIGNAL_MIN_BARS
    /\ ret.raw_score <= -5
    /\ ret.direction = "neutral"

-----------------------------------------------------------------------------
(* The scanner *)

PerformScanDone == pc = "done" /\ op = "perform_scan"
BroadcastSignalsDone == pc = "done" /\ op = "broadcast_signals"
CleanupDone == pc = "done" /\ op = "cleanup_broadcasted_signals"

VeryStrongFound == {s \in DOMAIN args.found : QLe(Q(VERY_STRONG, 1), args.found[s].strength)}

\* C28: a scan passes exactly the found signals of strength 9.0 or more to
\* broadcast_signals, a scan that found signals updates last_scan_time, and a
\* scan that found a signal of strength 9.0 or more leads to a broadcast
C28_ScanBroadcastsVeryStrong ==
    PerformScanDone =>
        /\ DOMAIN args.found # {} =>
              /\ last_scan_time = Some(clock)
              /\ DOMAIN locals.passed = VeryStrongFound
        /\ \A s \in VeryStrongFound :
              signal_id(s, args.found[s]) \in broadcasted_signals

\* how many times an id was sent to the channel
TimesSent(ch, id) == Cardinality({i \in DOMAIN ch : ch[i] = id})

\* C29: over any sequence of broadcasts, cleanups and scans an id is sent to
\* the channel at most once: no call sends an id that is in
\* broadcasted_signals, and an id leaves broadcasted_signals only in a cleanup
\* that reads the clock more than one hour after the id's minute
C29_EachIdSentAtMostOnce ==
    /\ [](\A id \in broadcasted_signals : TimesSent(channel, id) <= 1)
    /\ [](\A i \in DOMAIN channel : TimesSent(channel, channel[i]) = 1)
    /\ [][/\ \A id \in broadcasted_signals : TimesSent(channel', id) = TimesSent(channel, id)
          /\ \A id \in broadcasted_signals \ broadcasted_signals' :
                /\ op' = "cleanup_broadcasted_signals"
                /\ clock - signal_time(id) > ONE_HOUR]_vars

\* C29 (witness): a broadcast skipped an id that an earlier broadcast had sent,
\* and a cleanup removed an id that is in the channel
C29_RepeatedIdSkipped ==
    /\ BroadcastSignalsDone
    /\ \E id \in locals.skipped : TimesSent(channel, id) = 1
    /\ \E i \in DOMAIN channel : channel[i] \notin broadcasted_signals

-----------------------------------------------------------------------------
(* The trade buttons *)

ButtonDone == pc = "done" /\ op \in {"execute_buy", "execute_sell", "execute_close"}

\* the direction a button asks for
Wanted(button) == IF button = "execute_buy" THEN "BULLISH" ELSE "BEARISH"

\* C30: a buy (sell) click changes user_positions only by recording the
\* position of its pair after a BULLISH (BEARISH) signal, a close click only
\* by removing the position of its pair after a live price was obtained, and
\* every other click (signal changed or missing, no live price, no open
\* position, exception) leaves user_positions as it was
C30_PositionsChangeOnlyOnSuccess ==
    ButtonDone =>
        IF locals.outcome = "executed"
        THEN /\ args.signal.direction = Wanted(op)
             /\ HasPosition(user_positions, args.user_id, args.symbol)
             /\ \A u \in UserIds, s \in ButtonSymbols :
                   <<u, s>> # <<args.user_id, args.symbol>> =>
                      /\ HasPosition(user_positions, u, s) = HasPosition(args.positions, u, s)
                      /\ HasPosition(user_positions, u, s) => user_positions[u][s] = args.positions[u][s]
        ELSE IF locals.outcome = "closed"
        THEN /\ ~IsNone(args.current_price)
             /\ ~HasPosition(user_positions, args.user_id, args.symbol)
             /\ \A u \in UserIds, s \in ButtonSymbols :
                   <<u, s>> # <<args.user_id, args.symbol>> =>
                      /\ HasPosition(user_positions, u, s) = HasPosition(args.positions, u, s)
                      /\ HasPosition(user_positions, u, s) => user_positions[u][s] = args.positions[u][s]
        ELSE user_positions = args.positions


====
